---- MODULE Spec2Model ----
(***************************************************************************)
(* Followup Coach: the intimacy scoring core (lib/intimacy.ts), the        *)
(* "Today" worklist hook (hooks/useToday.ts), the Quick Log modal          *)
(* (components/QuickLogModal.tsx), the account detail hook                 *)
(* (hooks/useAccountDetail.ts) and the account card's own score.           *)
(*                                                                         *)
(* Conventions                                                             *)
(*  - An optional value (T | null) is a sequence of length at most one:    *)
(*    None is null, Some(x) is the value x.                                *)
(*  - A string the code inspects (name, country, search text) is a         *)
(*    sequence of one-character strings.                                   *)
(*  - Instants are integers counted in ticks; TicksPerDay ticks make the   *)
(*    1000*60*60*24 milliseconds of one day.  Timestamps come from a       *)
(*    timestamp column of the store and are therefore always valid         *)
(*    instants.                                                            *)
(*  - `now` is the value Date.now() returns.  One call of a scoring        *)
(*    function is evaluated at one clock reading; between the calls of one *)
(*    render of useToday the clock may tick.                               *)
(*  - Specifications: SpecScore, SpecPick, SpecTie, SpecEnum, SpecCard,    *)
(*    SpecDays and SpecBadge call functions directly on bounded inputs;    *)
(*    SpecClock evaluates one account while the clock advances; Spec runs  *)
(*    the useToday hook against a store; SpecSave runs the save handler of *)
(*    the Quick Log modal, in each version the repository holds, against   *)
(*    the store; SpecDetail runs the useAccountDetail hook, with several   *)
(*    calls of loadAll in flight, against the store.                       *)
(***************************************************************************)
EXTENDS Integers, Sequences, FiniteSets, TLC

VARIABLES
    now,          \* the wall clock, in ticks
    fnAccount,    \* argument of a direct call of a scoring function
    fnContacts,   \* argument of a direct call of a scoring function
    fnScore,      \* None, or Some(result of computeIntimacyScore)
    fnDue,        \* None, or Some(result of isAccountDue)
    fnPick,       \* None, or Some(result of pickRecommendedContact)
    dbAccounts,   \* the store: the rows of table accounts
    dbContacts,   \* the store: the rows of table contacts
    route,        \* the page the router shows
    loadPc,       \* useToday.loadAll: the await it is suspended at, or "idle"
    rawAccounts,  \* useToday state
    rawContacts,  \* useToday state
    loading,      \* useToday state
    error,        \* useToday state
    search,       \* useToday state
    tierFilter,   \* useToday state
    allEnriched,  \* useToday memo
    mustContact,  \* useToday memo
    allSorted,    \* useToday memo
    fnCard,       \* None, or Some(result of AccountCard's scoreForAccount)
    fnDays,       \* None, or Some(result of lib/intimacy's daysSince)
    fnDaysWeekly, \* None, or Some(result of the Weekly page's daysSince)
    sheetArea,    \* None, or Some(the area AddContactSheet was opened with and shows)
    fnBadge,      \* None, or Some(the place of a badge and the badge it computed)
    dbInteractions, \* the store: the rows of table interactions, in insertion order
    qlVariant,    \* QuickLogModal: the version of the component that is built
    qlOpen,       \* QuickLogModal: the prop open
    qlContacts,   \* QuickLogModal: the contacts offered by the select
    qlContactId,  \* QuickLogModal state: None is the empty string
    qlSummary,    \* QuickLogModal state
    qlNextStep,   \* QuickLogModal state
    qlNextStepDate, \* QuickLogModal state: None is the empty string
    qlMsg,        \* QuickLogModal state
    qlLoading,    \* QuickLogModal state
    savePc,       \* QuickLogModal.save: the await it is suspended at, or "idle"
    qlRequest,    \* QuickLogModal.save: what the closure of the running save holds
    onSavedCalls, \* the number of times save has invoked onSaved
    adRoute,      \* the page the router shows to the account detail hook
    adAccountId,  \* useAccountDetail: the argument accountId of the last render
    adAccount,    \* useAccountDetail state account
    adContacts,   \* useAccountDetail state contacts
    adInteractions, \* useAccountDetail state interactions
    adScore,      \* useAccountDetail state score
    adLoading,    \* useAccountDetail state loading
    adError,      \* useAccountDetail state error
    adLoads,      \* the calls of loadAll that reached an await, in call order
    adDelete,     \* None, or Some(the closure of the deleteContact that is awaiting)
    adShown,      \* the index in adLoads of the load whose rows the state holds
    loadAllCalls  \* the number of calls of useAccountDetail.loadAll

fnVars == <<fnAccount, fnContacts, fnScore, fnDue, fnPick>>

storeVars == <<dbAccounts, dbContacts>>

memoVars == <<allEnriched, mustContact, allSorted>>

hookVars == <<route, loadPc, rawAccounts, rawContacts, loading, error, search, tierFilter>>

appVars == <<storeVars, hookVars, memoVars>>

directVars == <<fnCard, fnDays, fnDaysWeekly, sheetArea, fnBadge>>

formVars == <<qlContactId, qlSummary, qlNextStep, qlNextStepDate>>

modalVars == <<dbInteractions, qlVariant, qlOpen, qlContacts, formVars, qlMsg, qlLoading,
               savePc, qlRequest, onSavedCalls>>

detailVars == <<adRoute, adAccountId, adAccount, adContacts, adInteractions, adScore,
                adLoading, adError, adLoads, adDelete, adShown, loadAllCalls>>

otherVars == <<directVars, modalVars, detailVars>>

vars == <<now, fnVars, appVars, otherVars>>

-----------------------------------------------------------------------------
(* Bounds of the model *)

\* ticks per day: the resolution of the clock of the model
TicksPerDay == 2
\* the direct calls of the score are evaluated on day MaxDays
MaxDays == 44
\* longest contact list handed to computeIntimacyScore
MaxContacts == 5
\* longest contact list handed to pickRecommendedContact
MaxPick == 3
\* the direct calls of pickRecommendedContact are evaluated on day MaxTouchDays
MaxTouchDays == 2
\* accounts in the store of a signed-in user
NumAccounts == 3
\* ticks the clock advances while the Today page is open
MaxTicks == 1

-----------------------------------------------------------------------------
(* Optional values *)

None == <<>>
Some(x) == <<x>>
IsNull(o) == o = None
Val(o) == o[1]

Max(a, b) == IF a >= b THEN a ELSE b
Min(a, b) == IF a <= b THEN a ELSE b

\* Math.round(p / q) for q > 0: the nearest integer, a half rounding up
MathRound(p, q) == (2 * p + q) \div (2 * q)

-----------------------------------------------------------------------------
(* lib/intimacy.ts *)

Tiers == {"A", "B", "C"}

AREAS == <<"Marketing", "R&D", "Procurement", "Commercial", "Directors">>

AreaSet == {AREAS[i] : i \in 1..Len(AREAS)}

\* daysSince(iso) evaluated when Date.now() returns clock
daysSince(iso, clock) ==
    IF IsNull(iso) THEN None
    ELSE LET diff == (clock - Val(iso)) \div TicksPerDay
         IN  Some(IF diff < 0 THEN 0 ELSE diff)

cadenceDays(tier) ==
    IF tier = "A" THEN 7
    ELSE IF tier = "B" THEN 14
    ELSE 30

RECURSIVE CoverageLoopFlags(_, _, _)
\* the loop of coverageByArea marking an area instead of counting its contacts
CoverageLoopFlags(contacts, i, map) ==
    IF i > Len(contacts) THEN map
    ELSE CoverageLoopFlags(contacts, i + 1,
            IF contacts[i].area \in DOMAIN map
            THEN [map EXCEPT ![contacts[i].area] = 1]
            ELSE map)

RECURSIVE CoverageLoop(_, _, _)
\* the for loop of coverageByArea, from contact i on
CoverageLoop(contacts, i, map) ==
    IF i > Len(contacts) THEN map
    ELSE CoverageLoop(contacts, i + 1,
            IF contacts[i].area \in DOMAIN map
            THEN [map EXCEPT ![contacts[i].area] = @ + 1]
            ELSE map)

coverageByArea(contacts) ==
    CoverageLoop(contacts, 1, [ar \in AreaSet |-> 0])

\* the points lost per day past the cadence
PenaltyPerDay == 5

RecencyPenalty4(d, cadence) ==
    IF IsNull(d) THEN 0
    ELSE IF Val(d) <= cadence THEN 60
    ELSE Max(0, 60 - (Val(d) - cadence) * 4)

\* a recency that grows with the days past the cadence
RecencyRising(d, cadence) ==
    IF IsNull(d) THEN 0
    ELSE IF Val(d) <= cadence THEN 60
    ELSE Min(60, (Val(d) - cadence) * 5)

\* the recency with one day of grace past the cadence
RecencyGrace(d, cadence) ==
    IF IsNull(d) THEN 0
    ELSE IF Val(d) <= cadence + 1 THEN 60
    ELSE Max(0, 60 - (Val(d) - cadence - 1) * 5)

\* computeIntimacyScore: "Recency 0-60"
Recency(d, cadence) ==
    IF IsNull(d) THEN 0
    ELSE IF Val(d) <= cadence THEN 60
    ELSE Max(0, 60 - (Val(d) - cadence) * PenaltyPerDay)

RECURSIVE CoveredReduce(_, _, _)
\* AREAS.reduce((acc, ar) => acc + (counts[ar] > 0 ? 1 : 0), 0), from area i on
CoveredReduce(counts, i, acc) ==
    IF i > Len(AREAS) THEN acc
    ELSE CoveredReduce(counts, i + 1,
            acc + (IF counts[AREAS[i]] > 0 THEN 1 ELSE 0))

RECURSIVE CountedReduce(_, _, _)
CountedReduce(counts, i, acc) ==
    IF i > Len(AREAS) THEN acc
    ELSE CountedReduce(counts, i + 1, acc + counts[AREAS[i]])

CoveredAreasCountsContacts(counts) == Min(Len(AREAS), CountedReduce(counts, 1, 0))

CoveredAreas(counts) == CoveredReduce(counts, 1, 0)

\* the coverage at ten points for each covered area
CoverageTenPerArea(coveredAreas) == Min(40, coveredAreas * 10)

\* Math.round((coveredAreas / AREAS.length) * 40)
Coverage(coveredAreas) == MathRound(coveredAreas * 40, Len(AREAS))

TotalRecencyOnly(recency, coverage) == Max(0, Min(100, MathRound(recency, 1)))

\* Math.max(0, Math.min(100, Math.round(recency + coverage)))
Total(recency, coverage) == Max(0, Min(100, MathRound(recency + coverage, 1)))

LabelThreshold60(total) ==
    IF total >= 80 THEN "Strong" ELSE IF total >= 60 THEN "Ok" ELSE "Risk"

Label(total) ==
    IF total >= 80 THEN "Strong" ELSE IF total >= 55 THEN "Ok" ELSE "Risk"

Tone(total) ==
    IF total >= 80 THEN "good" ELSE IF total >= 55 THEN "neutral" ELSE "warn"

computeIntimacyScore(account, contacts, clock) ==
    LET cadence      == cadenceDays(account.tier)
        d            == daysSince(account.last_interaction_at, clock)
        recency      == Recency(d, cadence)
        counts       == coverageByArea(contacts)
        coveredAreas == CoveredAreas(counts)
        coverage     == Coverage(coveredAreas)
        total        == Total(recency, coverage)
    IN  [ total        |-> total,
          label        |-> Label(total),
          tone         |-> Tone(total),
          recency      |-> MathRound(recency, 1),
          coverage     |-> coverage,
          coveredAreas |-> coveredAreas,
          missing      |-> SelectSeq(AREAS, LAMBDA ar : counts[ar] = 0),
          counts       |-> counts,
          cadence      |-> cadence,
          d            |-> d ]

isAccountDueInclusive(account, clock) ==
    LET d == daysSince(account.last_interaction_at, clock)
    IN  IF IsNull(d) THEN TRUE ELSE Val(d) >= cadenceDays(account.tier)

isAccountDue(account, clock) ==
    LET d == daysSince(account.last_interaction_at, clock)
    IN  IF IsNull(d) THEN TRUE ELSE Val(d) > cadenceDays(account.tier)

\* the comparator of pickRecommendedContact without its never-touched branches
ContactCompareDaysOnly(a, b, clock) ==
    LET da == daysSince(a.last_touch_at, clock)
        db == daysSince(b.last_touch_at, clock)
    IN  (IF IsNull(db) THEN -1 ELSE Val(db)) - (IF IsNull(da) THEN -1 ELSE Val(da))

\* the comparator of pickRecommendedContact sorting the fewest days first
ContactCompareAscending(a, b, clock) ==
    LET da == daysSince(a.last_touch_at, clock)
        db == daysSince(b.last_touch_at, clock)
        aNever == IsNull(da)
        bNever == IsNull(db)
    IN  IF aNever /\ ~bNever THEN -1
        ELSE IF ~aNever /\ bNever THEN 1
        ELSE (IF IsNull(da) THEN -1 ELSE Val(da)) - (IF IsNull(db) THEN -1 ELSE Val(db))

\* the comparator handed to sort by pickRecommendedContact
ContactCompare(a, b, clock) ==
    LET da == daysSince(a.last_touch_at, clock)
        db == daysSince(b.last_touch_at, clock)
        aNever == IsNull(da)
        bNever == IsNull(db)
    IN  IF aNever /\ ~bNever THEN -1
        ELSE IF ~aNever /\ bNever THEN 1
        ELSE (IF IsNull(db) THEN -1 ELSE Val(db)) - (IF IsNull(da) THEN -1 ELSE Val(da))

MustCompareTotalOnly(x, y) == x.score.total - y.score.total

\* the comparator of useToday's mustContact
MustCompare(x, y) ==
    IF x.score.total # y.score.total THEN x.score.total - y.score.total
    ELSE x.score.coverage - y.score.coverage

AllCompareDescending(x, y) == y.score.total - x.score.total

\* the comparator of useToday's allSorted
AllCompare(x, y) == x.score.total - y.score.total

\* the comparator of sortedContacts in QuickLogModal: never touched counts as
\* 999999 days, more days first
LeastTouchedCompare(a, b, clock) ==
    LET da == daysSince(a.last_touch_at, clock)
        db == daysSince(b.last_touch_at, clock)
        va == IF IsNull(da) THEN 999999 ELSE Val(da)
        vb == IF IsNull(db) THEN 999999 ELSE Val(db)
    IN  vb - va

\* the comparators the code hands to Array.prototype.sort
Compare(kind, a, b, clock) ==
    CASE kind = "touch" -> ContactCompare(a, b, clock)
      [] kind = "least" -> LeastTouchedCompare(a, b, clock)
      [] kind = "must"  -> MustCompare(a, b)
      [] kind = "all"   -> AllCompare(a, b)

RECURSIVE InsertionPoint(_, _, _, _, _)
\* the first index from j on whose element must follow x (Len + 1 when none)
InsertionPoint(kind, sorted, x, j, clock) ==
    IF j > Len(sorted) THEN j
    ELSE IF Compare(kind, x, sorted[j], clock) < 0 THEN j
    ELSE InsertionPoint(kind, sorted, x, j + 1, clock)

InsertStable(kind, sorted, x, clock) ==
    LET j == InsertionPoint(kind, sorted, x, 1, clock)
    IN  SubSeq(sorted, 1, j - 1) \o <<x>> \o SubSeq(sorted, j, Len(sorted))

RECURSIVE SortFrom(_, _, _, _, _)
SortFrom(kind, arr, i, sorted, clock) ==
    IF i > Len(arr) THEN sorted
    ELSE SortFrom(kind, arr, i + 1, InsertStable(kind, sorted, arr[i], clock), clock)

\* Array.prototype.sort(compare): a stable sort (ECMAScript 2019).  With a
\* comparator that is a consistent ordering the result is the one stable
\* arrangement, whatever algorithm the engine runs; the comparator reads the
\* clock, which is held at one reading for the duration of one sort.
ArraySort(kind, arr, clock) == SortFrom(kind, arr, 1, <<>>, clock)

\* what arr holds after arr.sort(compare): the sort arranges the array it is
\* called on
SortedInPlace(kind, arr, clock) == ArraySort(kind, arr, clock)

\* what arr holds after [...arr].sort(compare): the spread is a new array, and
\* the sort arranges that one
SpreadSource(kind, arr, clock) == arr

pickRecommendedContact(contacts, clock) ==
    IF Len(contacts) = 0 THEN None
    ELSE Some(ArraySort("touch", contacts, clock)[1])

-----------------------------------------------------------------------------
(* Direct calls of the scoring functions on bounded inputs *)

\* the instant at which the direct calls are evaluated
EvalNow == MaxDays * TicksPerDay

\* timestamps up to one day in the future of EvalNow
ScoreTimes == 0..(EvalNow + TicksPerDay)

Account(tier, lia) == [tier |-> tier, last_interaction_at |-> lia]

ScoreAccounts ==
    {Account(t, lia) : t \in Tiers, lia \in {None} \cup {Some(x) : x \in ScoreTimes}}

\* days past the cadence probed together with the long contact lists
OverdueProbes == {0, 1, 4, 6, 12}

ProbeAccounts ==
    {Account("A", None)} \cup
    {Account("A", Some(EvalNow - (cadenceDays("A") + k) * TicksPerDay)) : k \in OverdueProbes}

Contact(id, area, touch) ==
    [id |-> id, account_id |-> 1, area |-> area, last_touch_at |-> touch]

\* every list of at most n contacts, any areas, contact i having id i
ContactLists(n) ==
    UNION {{[i \in 1..k |-> Contact(i, f[i], None)] : f \in [1..k -> AreaSet]} : k \in 0..n}

\* the Today page is not mounted
AppUnmounted ==
    /\ dbAccounts = {}
    /\ dbContacts = {}
    /\ route = "/"
    /\ loadPc = "idle"
    /\ rawAccounts = <<>>
    /\ rawContacts = <<>>
    /\ loading = FALSE
    /\ error = None
    /\ search = <<>>
    /\ tierFilter = "all"
    /\ allEnriched = <<>>
    /\ mustContact = <<>>
    /\ allSorted = <<>>

\* no direct call of the variants has been made
DirectIdle ==
    /\ fnCard = None
    /\ fnDays = None
    /\ fnDaysWeekly = None
    /\ sheetArea = None
    /\ fnBadge = None

\* no account detail page is mounted
DetailUnmounted ==
    /\ adRoute = "/"
    /\ adAccountId = None
    /\ adAccount = None
    /\ adContacts = <<>>
    /\ adInteractions = <<>>
    /\ adScore = None
    /\ adLoading = FALSE
    /\ adError = None
    /\ adLoads = <<>>
    /\ adDelete = None
    /\ adShown = 0
    /\ loadAllCalls = 0

\* no Quick Log modal is mounted
ModalUnmounted ==
    /\ dbInteractions = <<>>
    /\ qlVariant = None
    /\ qlOpen = FALSE
    /\ qlContacts = <<>>
    /\ qlContactId = None
    /\ qlSummary = <<>>
    /\ qlNextStep = <<>>
    /\ qlNextStepDate = None
    /\ qlMsg = None
    /\ qlLoading = FALSE
    /\ savePc = "idle"
    /\ qlRequest = None
    /\ onSavedCalls = 0

InitScore ==
    /\ now = EvalNow
    /\ AppUnmounted
    /\ DirectIdle
    /\ DetailUnmounted
    /\ ModalUnmounted
    /\ \/ fnAccount \in ScoreAccounts /\ fnContacts \in ContactLists(1)
       \/ fnAccount \in ProbeAccounts /\ fnContacts \in ContactLists(MaxContacts)
    /\ fnScore = None
    /\ fnDue = None
    /\ fnPick = None

CallComputeIntimacyScore ==
    /\ fnScore = None
    /\ fnScore' = Some(computeIntimacyScore(fnAccount, fnContacts, now))
    /\ UNCHANGED <<otherVars, now, fnAccount, fnContacts, fnDue, fnPick, appVars>>

CallIsAccountDue ==
    /\ fnDue = None
    /\ fnDue' = Some(isAccountDue(fnAccount, now))
    /\ UNCHANGED <<otherVars, now, fnAccount, fnContacts, fnScore, fnPick, appVars>>

NextScore == CallComputeIntimacyScore \/ CallIsAccountDue

SpecScore == InitScore /\ [][NextScore]_vars

\* the instant at which pickRecommendedContact is called
PickNow == MaxTouchDays * TicksPerDay

\* never touched, or touched at any tick up to one tick in the future of PickNow
TouchTimes == {None} \cup {Some(t) : t \in 0..(PickNow + 1)}

\* every list of at most n contacts with any touch times, contact i having id i
TouchedLists(n) ==
    UNION {{[i \in 1..k |-> Contact(i, "Marketing", f[i])] : f \in [1..k -> TouchTimes]}
           : k \in 0..n}

InitPick ==
    /\ now = PickNow
    /\ AppUnmounted
    /\ DirectIdle
    /\ DetailUnmounted
    /\ ModalUnmounted
    /\ fnAccount = Account("A", None)
    /\ fnContacts \in TouchedLists(MaxPick)
    /\ fnScore = None
    /\ fnDue = None
    /\ fnPick = None

CallPickRecommendedContact ==
    /\ fnPick = None
    /\ fnPick' = Some(pickRecommendedContact(fnContacts, now))
    /\ fnContacts' = SpreadSource("touch", fnContacts, now)
    /\ UNCHANGED <<otherVars, now, fnAccount, fnScore, fnDue, appVars>>

NextPick == CallPickRecommendedContact

SpecPick == InitPick /\ [][NextPick]_vars

-----------------------------------------------------------------------------
(* String helpers of the worklist filter *)

\* String.prototype.toLowerCase on one character of the model's alphabet
LowerChar(ch) ==
    CASE ch = "A" -> "a"
      [] ch = "B" -> "b"
      [] ch = "C" -> "c"
      [] OTHER    -> ch

toLowerCase(s) ==
    IF Len(s) = 0 THEN <<>> ELSE [i \in 1..Len(s) |-> LowerChar(s[i])]

RECURSIVE TrimStart(_)
TrimStart(s) ==
    IF Len(s) > 0 /\ s[1] = " " THEN TrimStart(Tail(s)) ELSE s

RECURSIVE TrimEnd(_)
TrimEnd(s) ==
    IF Len(s) > 0 /\ s[Len(s)] = " " THEN TrimEnd(SubSeq(s, 1, Len(s) - 1)) ELSE s

\* String.prototype.trim
trim(s) == TrimEnd(TrimStart(s))

\* String.prototype.includes
includes(s, q) ==
    \E i \in 1..(Len(s) - Len(q) + 1) : SubSeq(s, i, i + Len(q) - 1) = q

-----------------------------------------------------------------------------
(* hooks/useToday.ts: the memos *)

fmtLastTouch(d) ==
    IF IsNull(d) THEN "nunca"
    ELSE IF Val(d) = 0 THEN "hoy"
    ELSE ToString(Val(d)) \o "d"

\* the filter callback of allEnriched, q being search.trim().toLowerCase()
PassesFilterNameOnly(a, q, tier) ==
    IF tier # "all" /\ a.tier # tier THEN FALSE
    ELSE IF q = <<>> THEN TRUE
    ELSE includes(toLowerCase(a.name), q)

PassesFilter(a, q, tier) ==
    IF tier # "all" /\ a.tier # tier THEN FALSE
    ELSE IF q = <<>> THEN TRUE
    ELSE \/ includes(toLowerCase(a.name), q)
         \/ includes(toLowerCase(IF IsNull(a.country) THEN <<>> ELSE Val(a.country)), q)

FilterAccounts(accounts, searchText, tier) ==
    LET q == toLowerCase(trim(searchText))
    IN  SelectSeq(accounts, LAMBDA a : PassesFilter(a, q, tier))

\* contactsByAccount.get(id) ?? []
ContactsByAccount(contacts, id) ==
    SelectSeq(contacts, LAMBDA c : c.account_id = id)

\* clock readings of the map callback of allEnriched for one account:
\* computeIntimacyScore, pickRecommendedContact, recDays, lastTouch, isAccountDue
ReadsPerAccount == 5

\* Date.now() at reading r of a pass that starts at clock0, the clock ticking
\* once after reading k
ClockAt(r, k, clock0) == IF r <= k THEN clock0 ELSE clock0 + 1

\* the map callback of allEnriched for account a, whose first reading is slot + 1
EnrichAccount(a, contactsRaw, slot, k, clock0) ==
    LET contacts       == ContactsByAccount(contactsRaw, a.id)
        coverageCounts == coverageByArea(contacts)
        missingAreas   == SelectSeq(AREAS, LAMBDA ar : coverageCounts[ar] = 0)
        score          == computeIntimacyScore(a, contacts, ClockAt(slot + 1, k, clock0))
        rec            == pickRecommendedContact(contacts, ClockAt(slot + 2, k, clock0))
        recDays        == IF IsNull(rec) THEN None
                          ELSE daysSince(Val(rec).last_touch_at, ClockAt(slot + 3, k, clock0))
    IN  [ id                   |-> a.id,
          name                 |-> a.name,
          tier                 |-> a.tier,
          country              |-> a.country,
          value_usd            |-> a.value_usd,
          last_interaction_at  |-> a.last_interaction_at,
          score                |-> score,
          lastTouch            |-> fmtLastTouch(daysSince(a.last_interaction_at,
                                                          ClockAt(slot + 4, k, clock0))),
          isDue                |-> isAccountDue(a, ClockAt(slot + 5, k, clock0)),
          contacts             |-> SpreadSource("touch", contacts,
                                                   ClockAt(slot + 2, k, clock0)),
          recommendedContact   |-> rec,
          recommendedLastTouch |-> fmtLastTouch(recDays),
          coverageCounts       |-> coverageCounts,
          missingAreas         |-> missingAreas ]

\* the memo allEnriched: filter, then enrich
AllEnrichedMemo(accounts, contactsRaw, searchText, tier, k, clock0) ==
    LET filtered == FilterAccounts(accounts, searchText, tier)
    IN  IF Len(filtered) = 0 THEN <<>>
        ELSE [i \in 1..Len(filtered) |->
                EnrichAccount(filtered[i], contactsRaw, ReadsPerAccount * (i - 1), k, clock0)]

\* the memo mustContact
MustContactMemo(enriched) ==
    ArraySort("must", SelectSeq(enriched, LAMBDA a : a.isDue), 0)

\* allSorted without the accounts that have no contacts
AllSortedMemoContacted(enriched) ==
    ArraySort("all", SelectSeq(enriched, LAMBDA a : Len(a.contacts) > 0), 0)

\* the memo allSorted
AllSortedMemo(enriched) == ArraySort("all", enriched, 0)

-----------------------------------------------------------------------------
(* The store *)

\* the instant the Today page is opened: the last tick of day MaxDays
Now0 == MaxDays * TicksPerDay + TicksPerDay - 1

MaxNow == Now0 + MaxTicks

\* the first tick of the day that lies `age` days before the day of Now0
DaysAgo(age) == (MaxDays - age) * TicksPerDay

\* tier and last interaction the store may hold for account i
ProfilesOf(i) ==
    CASE i % 3 = 1 -> { [tier |-> "A", lia |-> None],
                        [tier |-> "A", lia |-> Some(DaysAgo(11))] }
      [] i % 3 = 2 -> { [tier |-> "A", lia |-> None],
                        [tier |-> "B", lia |-> Some(DaysAgo(14))] }
      [] OTHER     -> { [tier |-> "C", lia |-> Some(DaysAgo(3))] }

\* the assignments of a profile to each of the accounts 1..n
ProfileChoices(n) ==
    {p \in [1..n -> UNION {ProfilesOf(i) : i \in 1..n}] : \A i \in 1..n : p[i] \in ProfilesOf(i)}

NameOf(i) ==
    CASE i % 3 = 1 -> <<"A", "b">>
      [] i % 3 = 2 -> <<"B", "c">>
      [] OTHER     -> <<"C", "b">>

CountryOf(i) ==
    CASE i % 3 = 1 -> None
      [] i % 3 = 2 -> Some(<<"C", "a">>)
      [] OTHER     -> Some(<<>>)

ValueOf(i) == IF i % 3 = 0 THEN None ELSE Some(500 - 100 * (i \div 3))

AccountRow(i, profile) ==
    [ id                  |-> i,
      name                |-> NameOf(i),
      tier                |-> profile.tier,
      country             |-> CountryOf(i),
      value_usd           |-> ValueOf(i),
      last_interaction_at |-> profile.lia ]

ContactRow(id, accountId, area, touch) ==
    [id |-> id, account_id |-> accountId, area |-> area, last_touch_at |-> touch]

\* the contacts of account i: one per area for the accounts with i % 3 = 2, else
\* (i - 1) % 3 contacts that all sit in one area
ContactRows(i) ==
    IF i % 3 = 2
    THEN {ContactRow(10 * i + j, i, AREAS[j],
                     IF j = 1 THEN None ELSE Some(DaysAgo(j))) : j \in 1..Len(AREAS)}
    ELSE {ContactRow(10 * i + j, i, "R&D",
                     IF j = 1 THEN Some(DaysAgo(3)) ELSE None) : j \in 1..((i - 1) % 3)}

\* ORDER BY value_usd DESC NULLS LAST: a may come before b
ValueOrdered(a, b) ==
    IF IsNull(b.value_usd) THEN TRUE
    ELSE IF IsNull(a.value_usd) THEN FALSE
    ELSE Val(a.value_usd) >= Val(b.value_usd)

\* the results the accounts query may return: every arrangement of the rows
\* that respects the ORDER BY
QueryAccounts(rows) ==
    LET n == Cardinality(rows)
    IN  { s \in [1..n -> rows] :
            /\ \A i, j \in 1..n : i # j => s[i] # s[j]
            /\ \A i, j \in 1..n : i < j => ValueOrdered(s[i], s[j]) }

RECURSIVE SeqById(_)
SeqById(rows) ==
    IF rows = {} THEN <<>>
    ELSE LET first == CHOOSE c \in rows : \A d \in rows : c.id <= d.id
         IN  <<first>> \o SeqById(rows \ {first})

\* the result of the contacts query: it has no ORDER BY, and the model lets the
\* store return the matching rows in the order of their insertion (by id)
QueryContacts(rows, accounts) ==
    LET ids   == {accounts[i].id : i \in 1..Len(accounts)}
        match == {c \in rows : c.account_id \in ids}
    IN  {SeqById(match)}

-----------------------------------------------------------------------------
(* hooks/useToday.ts: the hook *)

\* what the search box is made to hold
SearchTexts == { <<>>, <<" ", "A", " ">> }

TierFilters == {"all", "A", "B", "C"}

\* the render that follows a change of rawAccounts, rawContacts, search or
\* tierFilter recomputes the three memos; the clock may tick during the pass
Render(accounts, contactsRaw, searchText, tier) ==
    LET reads == ReadsPerAccount * Len(FilterAccounts(accounts, searchText, tier))
    IN  \E k \in 0..reads :
            /\ k < reads => now < MaxNow
            /\ now' = IF k < reads THEN now + 1 ELSE now
            /\ \E enriched \in {AllEnrichedMemo(accounts, contactsRaw, searchText, tier, k, now)} :
                  /\ mustContact' = MustContactMemo(enriched)
                  /\ allSorted' = AllSortedMemo(enriched)
                  /\ allEnriched' = SpreadSource("all", enriched, 0)

Init ==
    /\ now = Now0
    /\ \E n \in {0, NumAccounts} : \E p \in ProfileChoices(n) :
          /\ dbAccounts = {AccountRow(i, p[i]) : i \in 1..n}
          /\ dbContacts = UNION {ContactRows(i) : i \in 1..n}
    /\ route = "/today"
    /\ loadPc = "idle"
    /\ rawAccounts = <<>>
    /\ rawContacts = <<>>
    /\ loading = FALSE
    /\ error = None
    /\ search = <<>>
    /\ tierFilter = "all"
    /\ allEnriched = <<>>
    /\ mustContact = <<>>
    /\ allSorted = <<>>
    /\ fnAccount = Account("A", None)
    /\ fnContacts = <<>>
    /\ fnScore = None
    /\ fnDue = None
    /\ fnPick = None
    /\ DirectIdle
    /\ DetailUnmounted
    /\ ModalUnmounted

\* loadAll up to its first await (the mount effect, or Refresh, which is
\* disabled while loading)
LoadAllStart ==
    /\ route = "/today"
    /\ loadPc = "idle"
    /\ error' = None
    /\ loading' = TRUE
    /\ loadPc' = "requireUser"
    /\ UNCHANGED <<otherVars, now, fnVars, storeVars, memoVars, route, rawAccounts, rawContacts,
                   search, tierFilter>>

\* requireUser returns the user
RequireUserOk ==
    /\ route = "/today"
    /\ loadPc = "requireUser"
    /\ loadPc' = "accounts"
    /\ UNCHANGED <<otherVars, now, fnVars, storeVars, memoVars, route, rawAccounts, rawContacts,
                   loading, error, search, tierFilter>>

\* requireUser throws the error of auth.getUser
RequireUserError ==
    /\ route = "/today"
    /\ loadPc = "requireUser"
    /\ error' = Some("auth error")
    /\ loading' = FALSE
    /\ loadPc' = "idle"
    /\ UNCHANGED <<otherVars, now, fnVars, storeVars, memoVars, route, rawAccounts, rawContacts,
                   search, tierFilter>>

\* requireUser throws "Not signed in"
RequireUserNotSignedIn ==
    /\ route = "/today"
    /\ loadPc = "requireUser"
    /\ route' = "/login"
    /\ loading' = FALSE
    /\ loadPc' = "idle"
    /\ UNCHANGED <<otherVars, now, fnVars, storeVars, memoVars, error, rawAccounts, rawContacts,
                   search, tierFilter>>

\* the accounts query fails
AccountsQueryError ==
    /\ route = "/today"
    /\ loadPc = "accounts"
    /\ error' = Some("accounts error")
    /\ loading' = FALSE
    /\ loadPc' = "idle"
    /\ UNCHANGED <<otherVars, now, fnVars, storeVars, memoVars, route, rawAccounts, rawContacts,
                   search, tierFilter>>

\* the accounts query returns
AccountsQueryOk ==
    /\ route = "/today"
    /\ loadPc = "accounts"
    /\ \E accList \in QueryAccounts(dbAccounts) :
          /\ rawAccounts' = accList
          /\ IF Len(accList) = 0
             THEN /\ rawContacts' = <<>>
                  /\ loading' = FALSE
                  /\ loadPc' = "idle"
             ELSE /\ rawContacts' = rawContacts
                  /\ loading' = loading
                  /\ loadPc' = "contacts"
          /\ Render(rawAccounts', rawContacts', search, tierFilter)
    /\ UNCHANGED <<otherVars, fnVars, storeVars, route, error, search, tierFilter>>

\* the contacts query fails
ContactsQueryError ==
    /\ route = "/today"
    /\ loadPc = "contacts"
    /\ error' = Some("contacts error")
    /\ loading' = FALSE
    /\ loadPc' = "idle"
    /\ UNCHANGED <<otherVars, now, fnVars, storeVars, memoVars, route, rawAccounts, rawContacts,
                   search, tierFilter>>

\* the contacts query returns
ContactsQueryOk ==
    /\ route = "/today"
    /\ loadPc = "contacts"
    /\ \E cts \in QueryContacts(dbContacts, rawAccounts) :
          /\ rawContacts' = cts
          /\ Render(rawAccounts, rawContacts', search, tierFilter)
    /\ loading' = FALSE
    /\ loadPc' = "idle"
    /\ UNCHANGED <<otherVars, fnVars, storeVars, route, error, rawAccounts, search, tierFilter>>

\* the search box changes
SetSearch ==
    /\ route = "/today"
    /\ \E text \in SearchTexts \ {search} :
          /\ search' = text
          /\ Render(rawAccounts, rawContacts, search', tierFilter)
    /\ UNCHANGED <<otherVars, fnVars, storeVars, route, loadPc, rawAccounts, rawContacts, loading,
                   error, tierFilter>>

\* a button of the tier filter is pressed
SetTierFilter ==
    /\ route = "/today"
    /\ \E tier \in TierFilters \ {tierFilter} :
          /\ tierFilter' = tier
          /\ Render(rawAccounts, rawContacts, search, tierFilter')
    /\ UNCHANGED <<otherVars, fnVars, storeVars, route, loadPc, rawAccounts, rawContacts, loading,
                   error, search>>

\* time passes
Tick ==
    /\ now < MaxNow
    /\ now' = now + 1
    /\ UNCHANGED <<otherVars, fnVars, appVars>>

Next ==
    \/ LoadAllStart
    \/ RequireUserOk
    \/ RequireUserError
    \/ RequireUserNotSignedIn
    \/ AccountsQueryError
    \/ AccountsQueryOk
    \/ ContactsQueryError
    \/ ContactsQueryOk
    \/ SetSearch
    \/ SetTierFilter
    \/ Tick

Spec == Init /\ [][Next]_vars

-----------------------------------------------------------------------------
(* components/QuickLogModal.tsx: the Quick Log modal and its save handler *)

\* interactions one modal session may insert (failed saves leave theirs behind)
MaxInteractions == 2

\* The versions of the component the repository holds, by what their save
\* handlers differ in:
\*   requiresContact  save refuses an empty contact list and an empty selection
\*   emptyOption      the select offers an empty option
\*   stampOnce        the instant is read once, before the first write (nowIso)
\*   contactUpdate    "checked": contacts.last_touch_at is written and its error
\*                    thrown; "unchecked": written, the error ignored; "none":
\*                    never written
\*   awaitsOnSaved    onSaved() is awaited before the modal closes
\*   resetsText       summary and next step are cleared after a successful save
\*   resetsContact    the selection is cleared after a successful save
QuickLogVariants ==
    { [ file |-> "part_000:99",  requiresContact |-> TRUE,  emptyOption |-> FALSE,
        stampOnce |-> TRUE,  contactUpdate |-> "checked",   awaitsOnSaved |-> TRUE,
        resetsText |-> TRUE,  resetsContact |-> FALSE ],
      [ file |-> "part_000:428", requiresContact |-> TRUE,  emptyOption |-> TRUE,
        stampOnce |-> FALSE, contactUpdate |-> "unchecked", awaitsOnSaved |-> TRUE,
        resetsText |-> FALSE, resetsContact |-> FALSE ],
      [ file |-> "part_000:694", requiresContact |-> FALSE, emptyOption |-> TRUE,
        stampOnce |-> FALSE, contactUpdate |-> "none",      awaitsOnSaved |-> FALSE,
        resetsText |-> TRUE,  resetsContact |-> TRUE ],
      [ file |-> "part_001:57",  requiresContact |-> FALSE, emptyOption |-> TRUE,
        stampOnce |-> FALSE, contactUpdate |-> "none",      awaitsOnSaved |-> FALSE,
        resetsText |-> TRUE,  resetsContact |-> TRUE ] }

\* the accounts of the store a Quick Log modal is opened on: account 1 has no
\* contact, account 3 has two
SaveAccounts == {1, 3}

\* what the user types into the summary and next step boxes
SummaryTexts == { <<>>, <<" ">>, <<" ", "o", "k">> }

NextStepTexts == { <<>>, <<"g", "o", " ">> }

\* d.setDate(d.getDate() + 3); d.toISOString().slice(0, 10): a date is the
\* number of its day
DefaultNextStepDate(clock) == Some(clock \div TicksPerDay + 3)

\* the contact the modal selects when it opens
DefaultContactId(v, contacts, clock) ==
    IF ~v.requiresContact \/ Len(contacts) = 0 THEN None
    ELSE IF v.stampOnce THEN Some(ArraySort("least", contacts, clock)[1].id)
    ELSE Some(Val(pickRecommendedContact(contacts, clock)).id)

\* what the select lets the user choose
SelectableIds(v, contacts) ==
    {Some(contacts[i].id) : i \in 1..Len(contacts)} \cup
    (IF v.emptyOption THEN {None} ELSE {})

IsBlankUntrimmed(s) == s = <<>>

\* !s.trim()
IsBlank(s) == trim(s) = <<>>

\* the validation of save: None when it passes, else the message, given as
\* the name of the field the message is about
ValidationMessage(v, contacts, contactId, summary, nextStep, nextStepDate) ==
    IF v.requiresContact /\ Len(contacts) = 0 THEN Some("contacts")
    ELSE IF v.requiresContact /\ IsNull(contactId) THEN Some("contactId")
    ELSE IF IsBlank(summary) THEN Some("summary")
    ELSE IF IsBlank(nextStep) THEN Some("nextStep")
    ELSE IF IsNull(nextStepDate) THEN Some("nextStepDate")
    ELSE None

\* the row the insert writes; saved_at is not a column: it records the instant
\* save was pressed
InteractionRow(req) ==
    [ account_id     |-> req.account_id,
      contact_id     |-> req.contact_id,
      summary        |-> req.summary,
      next_step      |-> req.next_step,
      next_step_date |-> req.next_step_date,
      saved_at       |-> req.saved_at ]

\* new Date().toISOString() read for the next update, unless nowIso is used
NextStamp(v, req, clock) == IF v.stampOnce THEN req.stamp ELSE Some(clock)

TouchAccount(rows, id, stamp) ==
    {IF a.id = id THEN [a EXCEPT !.last_interaction_at = stamp] ELSE a : a \in rows}

TouchContact(rows, id, stamp) ==
    {IF c.id = id THEN [c EXCEPT !.last_touch_at = stamp] ELSE c : c \in rows}

\* the contacts of account i as AddContactSheet inserted them: not touched yet
FreshContactRows(i) == {[c EXCEPT !.last_touch_at = None] : c \in ContactRows(i)}

\* the Quick Log modal has just opened on an account of the store
InitSave ==
    /\ now = Now0
    /\ \E i \in SaveAccounts : \E p \in ProfilesOf(i) : \E v \in QuickLogVariants :
       \E rows \in {ContactRows(i), FreshContactRows(i)} :
          /\ dbAccounts = {AccountRow(i, p)}
          /\ dbContacts = rows
          /\ qlVariant = Some(v)
          /\ qlContacts = SeqById(rows)
          /\ qlContactId = DefaultContactId(v, SeqById(rows), Now0)
    /\ dbInteractions = <<>>
    /\ qlOpen = TRUE
    /\ qlSummary = <<>>
    /\ qlNextStep = <<>>
    /\ qlNextStepDate = DefaultNextStepDate(Now0)
    /\ qlMsg = None
    /\ qlLoading = FALSE
    /\ savePc = "idle"
    /\ qlRequest = None
    /\ onSavedCalls = 0
    /\ route = "/today"
    /\ loadPc = "idle"
    /\ rawAccounts = <<>>
    /\ rawContacts = <<>>
    /\ loading = FALSE
    /\ error = None
    /\ search = <<>>
    /\ tierFilter = "all"
    /\ allEnriched = <<>>
    /\ mustContact = <<>>
    /\ allSorted = <<>>
    /\ fnAccount = Account("A", None)
    /\ fnContacts = <<>>
    /\ fnScore = None
    /\ fnDue = None
    /\ fnPick = None
    /\ DirectIdle
    /\ DetailUnmounted

\* the user picks an option of the contact select
SetContactId ==
    /\ qlOpen
    /\ savePc = "idle"
    /\ \E id \in SelectableIds(Val(qlVariant), qlContacts) \ {qlContactId} :
          qlContactId' = id
    /\ UNCHANGED <<now, fnVars, appVars, directVars, detailVars, dbInteractions, qlVariant, qlOpen,
                   qlContacts, qlSummary, qlNextStep, qlNextStepDate, qlMsg, qlLoading,
                   savePc, qlRequest, onSavedCalls>>

SetSummary ==
    /\ qlOpen
    /\ savePc = "idle"
    /\ \E text \in SummaryTexts \ {qlSummary} : qlSummary' = text
    /\ UNCHANGED <<now, fnVars, appVars, directVars, detailVars, dbInteractions, qlVariant, qlOpen,
                   qlContacts, qlContactId, qlNextStep, qlNextStepDate, qlMsg, qlLoading,
                   savePc, qlRequest, onSavedCalls>>

SetNextStep ==
    /\ qlOpen
    /\ savePc = "idle"
    /\ \E text \in NextStepTexts \ {qlNextStep} : qlNextStep' = text
    /\ UNCHANGED <<now, fnVars, appVars, directVars, detailVars, dbInteractions, qlVariant, qlOpen,
                   qlContacts, qlContactId, qlSummary, qlNextStepDate, qlMsg, qlLoading,
                   savePc, qlRequest, onSavedCalls>>

\* the date input is cleared, or set to the default date again
SetNextStepDate ==
    /\ qlOpen
    /\ savePc = "idle"
    /\ \E date \in {None, DefaultNextStepDate(Now0)} \ {qlNextStepDate} :
          qlNextStepDate' = date
    /\ UNCHANGED <<now, fnVars, appVars, directVars, detailVars, dbInteractions, qlVariant, qlOpen,
                   qlContacts, qlContactId, qlSummary, qlNextStep, qlMsg, qlLoading,
                   savePc, qlRequest, onSavedCalls>>

\* save up to its first await: the validation and, when it passes, the insert
\* request (the button is disabled while loading)
SaveClick ==
    /\ qlOpen
    /\ ~qlLoading
    /\ savePc = "idle"
    /\ LET v      == Val(qlVariant)
           failed == ValidationMessage(v, qlContacts, qlContactId, qlSummary,
                                       qlNextStep, qlNextStepDate)
       IN  IF ~IsNull(failed)
           THEN /\ qlMsg' = failed
                /\ UNCHANGED <<qlLoading, savePc, qlRequest>>
           ELSE /\ Len(dbInteractions) < MaxInteractions
                /\ qlMsg' = None
                /\ qlLoading' = TRUE
                /\ savePc' = "insert"
                /\ qlRequest' = Some(
                      [ account_id     |-> (CHOOSE a \in dbAccounts : TRUE).id,
                        contact_id     |-> qlContactId,
                        summary        |-> trim(qlSummary),
                        next_step      |-> trim(qlNextStep),
                        next_step_date |-> qlNextStepDate,
                        saved_at       |-> now,
                        stamp          |-> IF v.stampOnce THEN Some(now) ELSE None ])
    /\ UNCHANGED <<now, fnVars, appVars, directVars, detailVars, dbInteractions, qlVariant, qlOpen,
                   qlContacts, formVars, onSavedCalls>>

\* the catch and finally blocks of save
SaveFails(message) ==
    /\ qlMsg' = Some(message)
    /\ qlLoading' = FALSE
    /\ savePc' = "idle"
    /\ qlRequest' = None
    /\ UNCHANGED <<qlOpen, formVars, onSavedCalls>>

\* onSaved() is called without await: onClose, the reset and finally follow
SaveFinishes ==
    LET v == Val(qlVariant)
    IN  /\ qlOpen' = FALSE
        /\ qlContactId' = IF v.resetsContact THEN None ELSE qlContactId
        /\ qlSummary' = IF v.resetsText THEN <<>> ELSE qlSummary
        /\ qlNextStep' = IF v.resetsText THEN <<>> ELSE qlNextStep
        /\ qlLoading' = FALSE
        /\ savePc' = "idle"
        /\ qlRequest' = None
        /\ UNCHANGED <<qlNextStepDate, qlMsg>>

\* the insert into interactions fails
InsertError ==
    /\ savePc = "insert"
    /\ SaveFails("interactions error")
    /\ UNCHANGED <<now, fnVars, appVars, directVars, detailVars, dbInteractions, qlVariant, qlContacts>>

\* the insert into interactions succeeds; the update of accounts is requested
InsertOk ==
    /\ savePc = "insert"
    /\ dbInteractions' = Append(dbInteractions, InteractionRow(Val(qlRequest)))
    /\ qlRequest' = Some([Val(qlRequest) EXCEPT
                             !.stamp = NextStamp(Val(qlVariant), Val(qlRequest), now)])
    /\ savePc' = "account"
    /\ UNCHANGED <<now, fnVars, appVars, directVars, detailVars, qlVariant, qlOpen, qlContacts,
                   formVars, qlMsg, qlLoading, onSavedCalls>>

\* the update of accounts fails
AccountUpdateError ==
    /\ savePc = "account"
    /\ SaveFails("accounts error")
    /\ UNCHANGED <<now, fnVars, appVars, directVars, detailVars, dbInteractions, qlVariant, qlContacts>>

\* the update of accounts succeeds; a version that updates the contact requests
\* that update, the others call onSaved and finish
AccountUpdateOk ==
    /\ savePc = "account"
    /\ dbAccounts' = TouchAccount(dbAccounts, Val(qlRequest).account_id,
                                  Val(qlRequest).stamp)
    /\ IF Val(qlVariant).contactUpdate = "none"
       THEN /\ onSavedCalls' = onSavedCalls + 1
            /\ SaveFinishes
       ELSE /\ savePc' = "contact"
            /\ qlRequest' = Some([Val(qlRequest) EXCEPT
                                    !.stamp = NextStamp(Val(qlVariant), Val(qlRequest), now)])
            /\ UNCHANGED <<qlOpen, formVars, qlMsg, qlLoading, onSavedCalls>>
    /\ UNCHANGED <<now, fnVars, dbContacts, hookVars, memoVars, directVars, detailVars, dbInteractions,
                   qlVariant, qlContacts>>

\* the update of contacts fails: thrown by the version that checks the error,
\* unnoticed by the version that does not
ContactUpdateError ==
    /\ savePc = "contact"
    /\ IF Val(qlVariant).contactUpdate = "checked"
       THEN SaveFails("contacts error")
       ELSE /\ savePc' = "onSaved"
            /\ onSavedCalls' = onSavedCalls + 1
            /\ UNCHANGED <<qlOpen, formVars, qlMsg, qlLoading, qlRequest>>
    /\ UNCHANGED <<now, fnVars, appVars, directVars, detailVars, dbInteractions, qlVariant, qlContacts>>

\* the update of contacts succeeds; onSaved is called and awaited
ContactUpdateOk ==
    /\ savePc = "contact"
    /\ dbContacts' = TouchContact(dbContacts, Val(Val(qlRequest).contact_id),
                                  Val(qlRequest).stamp)
    /\ savePc' = "onSaved"
    /\ onSavedCalls' = onSavedCalls + 1
    /\ UNCHANGED <<now, fnVars, dbAccounts, hookVars, memoVars, directVars, detailVars, dbInteractions,
                   qlVariant, qlOpen, qlContacts, formVars, qlMsg, qlLoading, qlRequest>>

\* the awaited onSaved returns: onClose, the reset and finally
OnSavedReturns ==
    /\ savePc = "onSaved"
    /\ SaveFinishes
    /\ UNCHANGED <<now, fnVars, appVars, directVars, detailVars, dbInteractions, qlVariant, qlContacts,
                   onSavedCalls>>

NextSave ==
    \/ SetContactId
    \/ SetSummary
    \/ SetNextStep
    \/ SetNextStepDate
    \/ SaveClick
    \/ InsertError
    \/ InsertOk
    \/ AccountUpdateError
    \/ AccountUpdateOk
    \/ ContactUpdateError
    \/ ContactUpdateOk
    \/ OnSavedReturns
    \/ Tick

SpecSave == InitSave /\ [][NextSave]_vars

-----------------------------------------------------------------------------
(* Direct calls with enum values outside the declared types *)

\* a tier that is not of type Tier, as a row of the store may carry it
UnknownTier == "D"

\* an area that is not of type Area
UnknownArea == "Legal"

\* days since the last interaction of the accounts handed to the calls
EnumAges == {0, 8, 15, 31}

EnumAccounts ==
    {Account(t, lia) : t \in Tiers \cup {UnknownTier},
                       lia \in {None} \cup {Some(EvalNow - k * TicksPerDay) : k \in EnumAges}}

\* every list of at most n contacts whose areas may be unknown
EnumContactLists(n) ==
    UNION {{[i \in 1..k |-> Contact(i, f[i], None)] : f \in [1..k -> AreaSet \cup {UnknownArea}]}
           : k \in 0..n}

\* longest contact list of these calls
MaxEnumContacts == 2

\* components/AddContactSheet.tsx, the effect that fills the form when the sheet
\* opens: (initial?.area as ContactArea) ?? "R&D", then
\* AREAS.includes(ar) ? ar : "R&D"
AddContactSheetArea(initialArea) ==
    LET ar == IF IsNull(initialArea) THEN "R&D" ELSE Val(initialArea)
    IN  IF ar \in AreaSet THEN ar ELSE "R&D"

InitEnum ==
    /\ now = EvalNow
    /\ AppUnmounted
    /\ DirectIdle
    /\ DetailUnmounted
    /\ ModalUnmounted
    /\ fnAccount \in EnumAccounts
    /\ fnContacts \in EnumContactLists(MaxEnumContacts)
    /\ fnScore = None
    /\ fnDue = None
    /\ fnPick = None

\* the sheet is opened to add a contact (initial is null) or to edit a contact
\* of the list
OpenAddContactSheet ==
    /\ sheetArea = None
    /\ \E initialArea \in {None} \cup {Some(fnContacts[i].area) : i \in 1..Len(fnContacts)} :
          sheetArea' = Some([initial |-> initialArea, area |-> AddContactSheetArea(initialArea)])
    /\ UNCHANGED <<now, fnVars, appVars, fnCard, fnDays, fnDaysWeekly, fnBadge, modalVars,
                   detailVars>>

NextEnum == CallComputeIntimacyScore \/ OpenAddContactSheet

SpecEnum == InitEnum /\ [][NextEnum]_vars

-----------------------------------------------------------------------------
(* components/AccountCard.tsx: the card's own score *)

\* the recency of scoreForAccount; the card's daysSince and cadenceDays
\* (AccountCard.tsx:30-42) read as those of lib/intimacy.ts do
CardRecency(d, cadence) ==
    IF IsNull(d) THEN 0
    ELSE IF Val(d) <= cadence THEN 60
    ELSE Max(0, 60 - (Val(d) - cadence) * 4)

\* new Set(contacts.map((c) => c.area))
CardCovered(contacts) == {contacts[i].area : i \in 1..Len(contacts)}

CardStatus(total) ==
    IF total >= 80 THEN "healthy" ELSE IF total >= 60 THEN "watch" ELSE "risk"

scoreForAccount(a, contacts, clock) ==
    LET d        == daysSince(a.last_interaction_at, clock)
        cadence  == cadenceDays(a.tier)
        recency  == CardRecency(d, cadence)
        covered  == CardCovered(contacts)
        cov      == Len(SelectSeq(AREAS, LAMBDA ar : ar \in covered))
        coverage == cov * 8
        total    == MathRound(Max(0, Min(100, recency + coverage)), 1)
    IN  [ total    |-> total,
          status   |-> CardStatus(total),
          recency  |-> MathRound(recency, 1),
          coverage |-> coverage ]

\* longest contact list handed to both implementations of the score
MaxCardContacts == 2

InitCard ==
    /\ now = EvalNow
    /\ AppUnmounted
    /\ DirectIdle
    /\ DetailUnmounted
    /\ ModalUnmounted
    /\ fnAccount \in ScoreAccounts
    /\ fnContacts \in ContactLists(MaxCardContacts)
    /\ fnScore = None
    /\ fnDue = None
    /\ fnPick = None

CallScoreForAccount ==
    /\ fnCard = None
    /\ fnCard' = Some(scoreForAccount(fnAccount, fnContacts, now))
    /\ UNCHANGED <<now, fnVars, appVars, fnDays, fnDaysWeekly, sheetArea, fnBadge, modalVars,
                   detailVars>>

NextCard == CallComputeIntimacyScore \/ CallScoreForAccount

SpecCard == InitCard /\ [][NextCard]_vars

-----------------------------------------------------------------------------
(* Direct calls of pickRecommendedContact on lists whose ids are in any order *)

\* never touched, touched a day before the call, touched at the call
TieTimes == {None, Some(PickNow - TicksPerDay), Some(PickNow)}

\* every list of at most n contacts whose ids are 1..k in any order
ShuffledLists(n) ==
    UNION {{[i \in 1..k |-> Contact(ids[i], "Marketing", f[i])] :
                ids \in {p \in [1..k -> 1..k] : \A i, j \in 1..k : i # j => p[i] # p[j]},
                f \in [1..k -> TieTimes]}
           : k \in 0..n}

\* longest contact list of these calls
MaxTie == 4

InitTie ==
    /\ now = PickNow
    /\ AppUnmounted
    /\ DirectIdle
    /\ DetailUnmounted
    /\ ModalUnmounted
    /\ fnAccount = Account("A", None)
    /\ fnContacts \in ShuffledLists(MaxTie)
    /\ fnScore = None
    /\ fnDue = None
    /\ fnPick = None

NextTie == CallPickRecommendedContact

SpecTie == InitTie /\ [][NextTie]_vars

-----------------------------------------------------------------------------
(* Direct calls of the implementations of daysSince *)

\* daysSince of the Weekly page (part_005:28-32; the same text at part_005:263,
\* app/today/page.tsx:1065 and app/accounts/[id]/page.tsx:444):
\* Math.floor(ms / (1000 * 60 * 60 * 24)), where \div rounds down as Math.floor
daysSinceWeekly(iso, clock) ==
    IF IsNull(iso) THEN None
    ELSE Some((clock - Val(iso)) \div TicksPerDay)

InitDays ==
    /\ now = EvalNow
    /\ AppUnmounted
    /\ DirectIdle
    /\ DetailUnmounted
    /\ ModalUnmounted
    /\ fnAccount \in ScoreAccounts
    /\ fnContacts = <<>>
    /\ fnScore = None
    /\ fnDue = None
    /\ fnPick = None

CallDaysSince ==
    /\ fnDays = None
    /\ fnDays' = Some(daysSince(fnAccount.last_interaction_at, now))
    /\ UNCHANGED <<now, fnVars, appVars, fnCard, fnDaysWeekly, sheetArea, fnBadge, modalVars,
                   detailVars>>

CallDaysSinceWeekly ==
    /\ fnDaysWeekly = None
    /\ fnDaysWeekly' = Some(daysSinceWeekly(fnAccount.last_interaction_at, now))
    /\ UNCHANGED <<now, fnVars, appVars, fnCard, fnDays, sheetArea, fnBadge, modalVars,
                   detailVars>>

NextDays == CallDaysSince \/ CallDaysSinceWeekly

SpecDays == InitDays /\ [][NextDays]_vars

-----------------------------------------------------------------------------
(* Direct calls of the places that show an account as ok or due *)

\* the places that compute the badge of an account
BadgePlaces ==
    {"part_006:449", "useAccountList.ts:66", "AccountCard.tsx:143", "today/page.tsx:427"}

\* the badge computed at place for account a when Date.now() returns clock
Badge(place, a, clock) ==
    LET d == daysSince(a.last_interaction_at, clock)
    IN  IF place = "part_006:449"
        THEN \* d == null ? "never" : d <= 7 ? "ok" : "due"
             IF IsNull(d) THEN "never" ELSE IF Val(d) <= 7 THEN "ok" ELSE "due"
        ELSE IF place = "useAccountList.ts:66"
        THEN LET limit == cadenceDays(a.tier)
             IN  IF IsNull(d) THEN "never" ELSE IF Val(d) <= limit THEN "ok" ELSE "due"
        ELSE IF place = "AccountCard.tsx:143"
        THEN LET cadence == cadenceDays(a.tier)
                 due     == IF IsNull(d) THEN TRUE ELSE Val(d) > cadence
             IN  IF due THEN "due" ELSE "ok"
        ELSE LET cadenceByTier == [A |-> 7, B |-> 14, C |-> 30]
                 cadence       == cadenceByTier[a.tier]
             IN  IF IsNull(d) THEN "never" ELSE IF Val(d) >= cadence THEN "due" ELSE "ok"

CallBadge ==
    /\ fnBadge = None
    /\ \E place \in BadgePlaces :
          fnBadge' = Some([place |-> place, badge |-> Badge(place, fnAccount, now)])
    /\ UNCHANGED <<now, fnVars, appVars, fnCard, fnDays, fnDaysWeekly, sheetArea, modalVars,
                   detailVars>>

NextBadge == CallBadge

SpecBadge == InitDays /\ [][NextBadge]_vars

-----------------------------------------------------------------------------
(* The score of one account while the clock advances *)

\* the last interaction of the account when the observation starts: none, at
\* the first instant, or one day after it
ClockStarts == {None, Some(0), Some(TicksPerDay)}

InitClock ==
    /\ now = 0
    /\ AppUnmounted
    /\ DirectIdle
    /\ DetailUnmounted
    /\ ModalUnmounted
    /\ \E t \in Tiers : \E lia \in ClockStarts : fnAccount = Account(t, lia)
    /\ fnContacts \in ContactLists(1)
    /\ fnScore = Some(computeIntimacyScore(fnAccount, fnContacts, now))
    /\ fnDue = Some(isAccountDue(fnAccount, now))
    /\ fnPick = None

\* Date.now() has advanced by one tick when the account is evaluated again
ClockAdvances ==
    /\ now < EvalNow + TicksPerDay
    /\ now' = now + 1
    /\ fnScore' = Some(computeIntimacyScore(fnAccount, fnContacts, now'))
    /\ fnDue' = Some(isAccountDue(fnAccount, now'))
    /\ UNCHANGED <<otherVars, fnAccount, fnContacts, fnPick, appVars>>

\* a save writes last_interaction_at, and the account is evaluated again
SaveUpdatesAccount ==
    /\ fnAccount.last_interaction_at # Some(now)
    /\ fnAccount' = [fnAccount EXCEPT !.last_interaction_at = Some(now)]
    /\ fnScore' = Some(computeIntimacyScore(fnAccount', fnContacts, now))
    /\ fnDue' = Some(isAccountDue(fnAccount', now))
    /\ UNCHANGED <<otherVars, now, fnContacts, fnPick, appVars>>

NextClock == ClockAdvances \/ SaveUpdatesAccount

SpecClock == InitClock /\ [][NextClock]_vars

-----------------------------------------------------------------------------
(* hooks/useAccountDetail.ts *)

MaxLoads == 2

MaxCalls == 3

\* a test of the length and the hyphens only
isUuidShape(v) ==
    /\ Len(v) = 36
    /\ \A k \in {9, 14, 19, 24} : v[k] = "-"

\* /^[0-9a-f]{8}-[0-9a-f]{4}-[1-5][0-9a-f]{3}-[89ab][0-9a-f]{3}-[0-9a-f]{12}$/i
isUuid(v) ==
    LET s   == toLowerCase(v)
        hex == {"0", "1", "2", "3", "4", "5", "6", "7", "8", "9",
                "a", "b", "c", "d", "e", "f"}
    IN  /\ Len(s) = 36
        /\ \A k \in 1..36 :
              IF k \in {9, 14, 19, 24} THEN s[k] = "-"
              ELSE IF k = 15 THEN s[k] \in {"1", "2", "3", "4", "5"}
              ELSE IF k = 20 THEN s[k] \in {"8", "9", "a", "b"}
              ELSE s[k] \in hex

\* the id column of account i, as text: 00000000-0000-4000-8000-00000000000i
DetailUuid(i) ==
    [k \in 1..36 |->
        IF k \in {9, 14, 19, 24} THEN "-"
        ELSE IF k = 15 THEN "4"
        ELSE IF k = 20 THEN "8"
        ELSE IF k = 36 THEN <<"0", "1", "2", "3", "4", "5", "6", "7", "8", "9">>[i + 1]
        ELSE "0"]

\* what params.id may hold: undefined, the empty string, a word, the id of
\* account 3 with version digit 0, the ids of accounts 3 and 6, and a well-formed
\* id in capitals that no account has
RouteIds ==
    { None, Some(<<>>), Some(<<"a", "b", "c">>),
      Some([DetailUuid(3) EXCEPT ![15] = "0"]),
      Some(DetailUuid(3)), Some(DetailUuid(6)),
      Some([DetailUuid(3) EXCEPT ![1] = "A"]) }

\* the page of an account has been opened and has rendered once; the effect
\* has not run yet
InitDetail ==
    /\ now = Now0
    /\ LET ids == {3, 6}
       IN  /\ dbAccounts = {AccountRow(i, CHOOSE p \in ProfilesOf(i) : TRUE) : i \in ids}
           /\ dbContacts = UNION {ContactRows(i) : i \in ids}
           /\ dbInteractions =
                 [k \in 1..2 |->
                     [ account_id |-> 3 * k, contact_id |-> Some(30 * k + 1),
                       summary |-> <<"o", "k">>, next_step |-> <<"g", "o">>,
                       next_step_date |-> DefaultNextStepDate(Now0), saved_at |-> 0 ]]
    /\ adRoute = "/accounts"
    /\ adAccountId = None
    /\ adAccount = None
    /\ adContacts = <<>>
    /\ adInteractions = <<>>
    /\ adScore = None
    /\ adLoading = FALSE
    /\ adError = None
    /\ adLoads = <<>>
    /\ adDelete = None
    /\ adShown = 0
    /\ loadAllCalls = 0
    /\ route = "/"
    /\ loadPc = "idle"
    /\ rawAccounts = <<>>
    /\ rawContacts = <<>>
    /\ loading = FALSE
    /\ error = None
    /\ search = <<>>
    /\ tierFilter = "all"
    /\ allEnriched = <<>>
    /\ mustContact = <<>>
    /\ allSorted = <<>>
    /\ fnAccount = Account("A", None)
    /\ fnContacts = <<>>
    /\ fnScore = None
    /\ fnDue = None
    /\ fnPick = None
    /\ DirectIdle
    /\ qlVariant = None
    /\ qlOpen = FALSE
    /\ qlContacts = <<>>
    /\ qlContactId = None
    /\ qlSummary = <<>>
    /\ qlNextStep = <<>>
    /\ qlNextStepDate = None
    /\ qlMsg = None
    /\ qlLoading = FALSE
    /\ savePc = "idle"
    /\ qlRequest = None
    /\ onSavedCalls = 0

\* loadAll up to its first await, called from a render whose accountId is id;
\* rejected is what loading holds once an id that is refused has been handled
LoadAllCall(id, rejected) ==
    /\ loadAllCalls' = loadAllCalls + 1
    /\ IF IsNull(id) \/ Val(id) = <<>>
       THEN /\ adError' = Some("Missing account id.")
            /\ adLoading' = rejected
            /\ adLoads' = adLoads
       ELSE IF ~isUuid(Val(id))
       THEN /\ adError' = Some("Invalid account id")
            /\ adLoading' = rejected
            /\ adLoads' = adLoads
       ELSE /\ adError' = None
            /\ adLoading' = TRUE
            /\ adLoads' = Append(adLoads, [accountId |-> Val(id), pc |-> "requireUser"])

\* the effect after a render with another accountId, or a call of the loadAll
\* that the hook returns
TriggerLoadAll ==
    /\ adRoute = "/accounts"
    /\ Len(adLoads) + (IF IsNull(adDelete) THEN 0 ELSE 1) < MaxLoads
    /\ loadAllCalls + (IF IsNull(adDelete) THEN 0 ELSE 1) < MaxCalls
    /\ \E id \in RouteIds :
          /\ adAccountId' = id
          /\ LoadAllCall(id, adLoading)
    /\ UNCHANGED <<now, fnVars, appVars, directVars, modalVars, adRoute, adAccount,
                   adContacts, adInteractions, adScore, adDelete, adShown>>

\* requireUser of load k returns, or throws
RequireUserReturns ==
    /\ adRoute = "/accounts"
    /\ \E k \in 1..Len(adLoads) :
          /\ adLoads[k].pc = "requireUser"
          /\ \/ /\ adLoads' = [adLoads EXCEPT ![k].pc = "queries"]
                /\ UNCHANGED <<adError, adLoading, adRoute>>
             \/ /\ adLoads' = [adLoads EXCEPT ![k].pc = "error"]
                /\ adError' = Some("auth error")
                /\ adLoading' = FALSE
                /\ UNCHANGED adRoute
             \/ /\ adLoads' = [adLoads EXCEPT ![k].pc = "login"]
                /\ adRoute' = "/login"
                /\ adLoading' = FALSE
                /\ UNCHANGED adError
    /\ UNCHANGED <<now, fnVars, appVars, directVars, modalVars, adAccountId, adAccount,
                   adContacts, adInteractions, adScore, adDelete, adShown, loadAllCalls>>

\* the three queries of load k have returned
QueriesReturn ==
    /\ adRoute = "/accounts"
    /\ \E k \in 1..Len(adLoads) :
          /\ adLoads[k].pc = "queries"
          /\ LET id   == toLowerCase(adLoads[k].accountId)
                 acc  == {a \in dbAccounts : DetailUuid(a.id) = id}
                 cts  == SeqById({c \in dbContacts : DetailUuid(c.account_id) = id})
                 its  == SelectSeq(dbInteractions, LAMBDA r : DetailUuid(r.account_id) = id)
                 desc(s) == [j \in 1..Len(s) |-> s[Len(s) + 1 - j]]
             IN  \/ /\ acc # {}
                    /\ LET accData == CHOOSE a \in acc : TRUE
                           ctsData == desc(cts)
                       IN  /\ adAccount' = Some(accData)
                           /\ adContacts' = ctsData
                           /\ adInteractions' = desc(its)
                           /\ adScore' = Some(computeIntimacyScore(accData, ctsData, now))
                    /\ adShown' = k
                    /\ adLoads' = [adLoads EXCEPT ![k].pc = "ok"]
                    /\ adLoading' = FALSE
                    /\ UNCHANGED adError
                 \/ /\ adLoads' = [adLoads EXCEPT ![k].pc = "error"]
                    /\ adError' = Some("query error")
                    /\ adLoading' = FALSE
                    /\ UNCHANGED <<adAccount, adContacts, adInteractions, adScore, adShown>>
    /\ UNCHANGED <<now, fnVars, appVars, directVars, modalVars, adRoute, adAccountId,
                   adDelete, loadAllCalls>>

\* deleteContact up to its await
DeleteContactClick ==
    /\ adRoute = "/accounts"
    /\ IsNull(adDelete)
    /\ Len(adLoads) < MaxLoads
    /\ loadAllCalls < MaxCalls
    /\ \E j \in 1..Len(adContacts) :
          adDelete' = Some([id |-> adContacts[j].id, accountId |-> adAccountId])
    /\ adError' = None
    /\ adLoading' = TRUE
    /\ UNCHANGED <<now, fnVars, appVars, directVars, modalVars, adRoute, adAccountId,
                   adAccount, adContacts, adInteractions, adScore, adLoads, adShown,
                   loadAllCalls>>

\* the delete returns: with an error, or done, and then loadAll is called and
\* awaited; finally sets loading to false at once when loadAll starts no load
DeleteReturns ==
    /\ adRoute = "/accounts"
    /\ ~IsNull(adDelete)
    /\ \/ /\ adError' = Some("delete error")
          /\ adLoading' = FALSE
          /\ UNCHANGED <<dbContacts, adLoads, loadAllCalls>>
       \/ /\ dbContacts' = {c \in dbContacts : c.id # Val(adDelete).id}
          /\ LoadAllCall(Val(adDelete).accountId, FALSE)
    /\ adDelete' = None
    /\ UNCHANGED <<now, fnVars, dbAccounts, hookVars, memoVars, directVars, modalVars,
                   adRoute, adAccountId, adAccount, adContacts, adInteractions, adScore,
                   adShown>>

NextDetail ==
    \/ TriggerLoadAll
    \/ RequireUserReturns
    \/ QueriesReturn
    \/ DeleteContactClick
    \/ DeleteReturns

SpecDetail == InitDetail /\ [][NextDetail]_vars

-----------------------------------------------------------------------------
(* Claims about the scoring functions, checked under SpecScore *)

\* the areas in which the list handed to computeIntimacyScore has a contact
AreasWithContact ==
    {ar \in AreaSet : \E i \in 1..Len(fnContacts) : fnContacts[i].area = ar}

\* the days since the last interaction of the account handed to the call
ArgDays == daysSince(fnAccount.last_interaction_at, now)

ArgCadence == cadenceDays(fnAccount.tier)

\* C1: recency is 0 for a never contacted account, 60 when d <= cadence, and
\* max(0, 60 - (d - cadence) * 5) when d > cadence; always an integer in 0..60.
C1_Recency ==
    ~IsNull(fnScore) =>
        LET r == Val(fnScore).recency
        IN  /\ r \in 0..60
            /\ IsNull(ArgDays) => r = 0
            /\ (~IsNull(ArgDays) /\ Val(ArgDays) <= ArgCadence) => r = 60
            /\ (~IsNull(ArgDays) /\ Val(ArgDays) > ArgCadence) =>
                   r = Max(0, 60 - (Val(ArgDays) - ArgCadence) * 5)

\* Scenario A: tier A, 10 days since the last interaction, recency 45
C1_Witness ==
    /\ ~IsNull(fnScore)
    /\ fnAccount.tier = "A"
    /\ ArgDays = Some(10)
    /\ Val(fnScore).recency = 45

\* C2: total = clamp(round(recency + coverage), 0, 100), hence 0 <= total <= 100,
\* for every tier, every last_interaction_at (null included) and every contact list.
C2_Total ==
    ~IsNull(fnScore) =>
        LET s == Val(fnScore)
        IN  /\ s.total = Max(0, Min(100, s.recency + s.coverage))
            /\ s.total >= 0
            /\ s.total <= 100

\* a score whose two components are both positive, at the upper end of the range
C2_Witness ==
    /\ ~IsNull(fnScore)
    /\ Val(fnScore).recency = 60
    /\ Val(fnScore).coverage = 40
    /\ Val(fnScore).total = 100

\* C3: coverage = round(40 * coveredAreaCount / 5), an area being covered when it
\* has at least one contact; coverage is in 0..40 and is 40 iff all five areas
\* have at least one contact.
C3_Coverage ==
    ~IsNull(fnScore) =>
        LET cov == Val(fnScore).coverage
        IN  /\ cov = MathRound(40 * Cardinality(AreasWithContact), 5)
            /\ cov \in 0..40
            /\ cov = 40 <=> AreasWithContact =
                   {"Marketing", "R&D", "Procurement", "Commercial", "Directors"}

\* five contacts in three areas: two areas hold more than one contact
C3_Witness ==
    /\ ~IsNull(fnScore)
    /\ Len(fnContacts) = 5
    /\ Cardinality(AreasWithContact) = 3
    /\ Val(fnScore).coverage = 24

\* all five areas covered
C3_WitnessFull ==
    /\ ~IsNull(fnScore)
    /\ Cardinality(AreasWithContact) = 5
    /\ Val(fnScore).coverage = 40

\* C4: total >= 80 is "Strong", 55 <= total < 80 is "Ok", total < 55 is "Risk";
\* tone is good/neutral/warn exactly when label is Strong/Ok/Risk; an account
\* within cadence with no contacts has total 60 and label "Ok".
C4_Label ==
    ~IsNull(fnScore) =>
        LET s == Val(fnScore)
        IN  /\ s.total >= 80 => s.label = "Strong"
            /\ (s.total >= 55 /\ s.total < 80) => s.label = "Ok"
            /\ s.total < 55 => s.label = "Risk"
            /\ s.label \in {"Strong", "Ok", "Risk"}
            /\ s.tone \in {"good", "neutral", "warn"}
            /\ s.tone = "good" <=> s.label = "Strong"
            /\ s.tone = "neutral" <=> s.label = "Ok"
            /\ s.tone = "warn" <=> s.label = "Risk"
            /\ (~IsNull(ArgDays) /\ Val(ArgDays) <= ArgCadence /\ fnContacts = <<>>) =>
                   (s.total = 60 /\ s.label = "Ok")

\* the lowest total that is still "Ok": one day overdue, no contacts
C4_Witness ==
    /\ ~IsNull(fnScore)
    /\ fnContacts = <<>>
    /\ Val(fnScore).total = 55
    /\ Val(fnScore).label = "Ok"
    /\ Val(fnScore).tone = "neutral"

\* C5: isAccountDue is true iff last_interaction_at is absent or
\* daysSince(last_interaction_at) > cadenceDays(tier); elapsed days equal to the
\* cadence are not due, a never contacted account is due.
C5_Due ==
    ~IsNull(fnDue) =>
        /\ Val(fnDue) <=>
              (IsNull(fnAccount.last_interaction_at) \/ Val(ArgDays) > ArgCadence)
        /\ (~IsNull(ArgDays) /\ Val(ArgDays) = ArgCadence) => ~Val(fnDue)
        /\ IsNull(fnAccount.last_interaction_at) => Val(fnDue)

\* elapsed days exactly equal to the cadence: not due
C5_Witness ==
    /\ fnDue = Some(FALSE)
    /\ ~IsNull(ArgDays)
    /\ Val(ArgDays) = ArgCadence

-----------------------------------------------------------------------------
(* Claims about pickRecommendedContact, checked under SpecPick *)

\* the days since the last touch of contact i of the list handed to the call
TouchDays(i) == daysSince(fnContacts[i].last_touch_at, now)

SomeNeverTouched == \E i \in 1..Len(fnContacts) : IsNull(fnContacts[i].last_touch_at)

SomeTouched == \E i \in 1..Len(fnContacts) : ~IsNull(fnContacts[i].last_touch_at)

\* the call returned a contact of the list
PickedFromList ==
    /\ ~IsNull(fnPick)
    /\ ~IsNull(Val(fnPick))
    /\ \E i \in 1..Len(fnContacts) : fnContacts[i] = Val(Val(fnPick))

\* C6: a list with at least one never touched contact and at least one touched
\* contact yields a never touched contact, whatever the days and the input order.
C6_NeverTouchedFirst ==
    (~IsNull(fnPick) /\ SomeNeverTouched /\ SomeTouched) =>
        /\ PickedFromList
        /\ IsNull(Val(Val(fnPick)).last_touch_at)

\* the touched contacts come first in the input, the never touched one last
C6_Witness ==
    /\ PickedFromList
    /\ Len(fnContacts) = 3
    /\ TouchDays(1) = Some(2)
    /\ TouchDays(2) = Some(0)
    /\ IsNull(fnContacts[3].last_touch_at)
    /\ Val(Val(fnPick)).id = 3

\* C7: a non-empty list of touched contacts yields a contact whose days since the
\* last touch are maximal in the list, whatever the input order.
C7_MostOverdue ==
    (~IsNull(fnPick) /\ Len(fnContacts) > 0 /\ ~SomeNeverTouched) =>
        /\ PickedFromList
        /\ \A i \in 1..Len(fnContacts) :
              Val(TouchDays(i)) <= Val(daysSince(Val(Val(fnPick)).last_touch_at, now))

\* the most overdue contact is the last of the input
C7_Witness ==
    /\ PickedFromList
    /\ Len(fnContacts) = 3
    /\ TouchDays(1) = Some(1)
    /\ TouchDays(2) = Some(0)
    /\ TouchDays(3) = Some(2)
    /\ Val(Val(fnPick)).id = 3

-----------------------------------------------------------------------------
(* Claims about the worklist of useToday, checked under Spec *)

\* the account passes the worklist filter, as the claim states it
ClaimPasses(a) ==
    LET q == toLowerCase(trim(search))
    IN  /\ tierFilter = "all" \/ tierFilter = a.tier
        /\ \/ q = <<>>
           \/ includes(toLowerCase(a.name), q)
           \/ includes(toLowerCase(IF IsNull(a.country) THEN <<>> ELSE Val(a.country)), q)

\* the ids of the loaded accounts that pass the filter
PassingIds ==
    {rawAccounts[i].id : i \in {j \in 1..Len(rawAccounts) : ClaimPasses(rawAccounts[j])}}

RowIds(rows) == {rows[i].id : i \in 1..Len(rows)}

EachOnce(rows) == \A i, j \in 1..Len(rows) : i # j => rows[i].id # rows[j].id

\* every row of the list is a row of allEnriched
FromEnriched(rows) ==
    \A i \in 1..Len(rows) : \E j \in 1..Len(allEnriched) : rows[i] = allEnriched[j]

\* C8: mustContact holds exactly the filtered accounts whose isDue flag is set,
\* each once, ascending by score.total, equal totals ascending by score.coverage.
C8_MustContact ==
    /\ FromEnriched(mustContact)
    /\ EachOnce(mustContact)
    /\ RowIds(mustContact) =
          {allEnriched[i].id : i \in {j \in 1..Len(allEnriched) : allEnriched[j].isDue}}
    /\ RowIds(mustContact) \subseteq PassingIds
    /\ \A id \in PassingIds \ RowIds(mustContact) :
          \E j \in 1..Len(allEnriched) : allEnriched[j].id = id /\ ~allEnriched[j].isDue
    /\ \A i, j \in 1..Len(mustContact) : i < j =>
          /\ mustContact[i].score.total <= mustContact[j].score.total
          /\ mustContact[i].score.total = mustContact[j].score.total =>
                mustContact[i].score.coverage <= mustContact[j].score.coverage

\* two due accounts with the same total arrive with the better covered one first
\* and leave with the less covered one first; the account that is not due is left out
C8_Witness ==
    /\ Len(allEnriched) = 3
    /\ Len(mustContact) = 2
    /\ allEnriched[1].id = mustContact[2].id
    /\ allEnriched[2].id = mustContact[1].id
    /\ mustContact[1].score.total = mustContact[2].score.total
    /\ mustContact[1].score.coverage < mustContact[2].score.coverage
    /\ ~allEnriched[3].isDue

\* C9: allSorted is a permutation of the filtered accounts (each passing account
\* once, no failing account), ascending by score.total.
C9_AllSorted ==
    /\ FromEnriched(allSorted)
    /\ EachOnce(allSorted)
    /\ Len(allSorted) = Cardinality(PassingIds)
    /\ RowIds(allSorted) = PassingIds
    /\ \A i, j \in 1..Len(allSorted) : i < j =>
          allSorted[i].score.total <= allSorted[j].score.total

\* two accounts with different totals that arrive in another order than they
\* leave, under a filter that leaves the third loaded account out
C9_Witness ==
    /\ Len(allSorted) = 2
    /\ Len(rawAccounts) = 3
    /\ allSorted[1].score.total < allSorted[2].score.total
    /\ allEnriched[1].id = allSorted[2].id
    /\ allEnriched[2].id = allSorted[1].id

\* C10: an account passes the filter iff (tier filter is "all" or its tier) and
\* (the trimmed lower-cased search text is empty or a substring of the lower-cased
\* name or country, a null country being the empty string); the filter runs before
\* scoring and sorting: no filtered-out account is enriched or is in either list.
C10_Filter ==
    /\ RowIds(allEnriched) = PassingIds
    /\ EachOnce(allEnriched)
    /\ Len(allEnriched) = Cardinality(PassingIds)
    /\ RowIds(mustContact) \subseteq PassingIds
    /\ RowIds(allSorted) \subseteq PassingIds

\* " A " selects account 1 by its name "Ab" and account 2 by its country "Ca" only,
\* and leaves out account 3
C10_Witness ==
    /\ search = <<" ", "A", " ">>
    /\ tierFilter = "all"
    /\ RowIds(rawAccounts) = {1, 2, 3}
    /\ RowIds(allEnriched) = {1, 2}
    /\ RowIds(allSorted) = {1, 2}

\* the tier filter alone leaves accounts out
C10_WitnessTier ==
    /\ search = <<>>
    /\ tierFilter = "C"
    /\ RowIds(rawAccounts) = {1, 2, 3}
    /\ RowIds(allEnriched) = {3}

-----------------------------------------------------------------------------
(* Claims about QuickLogModal.save, checked under SpecSave *)

\* the account of the row has been given a last_interaction_at by the save that
\* inserted the row, or by a later one
AccountStamped(r) ==
    \E a \in dbAccounts :
        /\ a.id = r.account_id
        /\ ~IsNull(a.last_interaction_at)
        /\ Val(a.last_interaction_at) >= r.saved_at
        /\ Val(a.last_interaction_at) <= now

\* the contact of the row has been given a last_touch_at by the save that
\* inserted the row, or by a later one
ContactStamped(r) ==
    \E c \in dbContacts :
        /\ c.id = Val(r.contact_id)
        /\ ~IsNull(c.last_touch_at)
        /\ Val(c.last_touch_at) >= r.saved_at
        /\ Val(c.last_touch_at) <= now

\* C11: once save has invoked onSaved, the store holds the new interaction of the
\* account, the account's last_interaction_at is an instant of that save and,
\* when the interaction names a contact, so is the contact's last_touch_at.
C11_SavedComplete ==
    onSavedCalls > 0 =>
        /\ Len(dbInteractions) > 0
        /\ LET r == dbInteractions[Len(dbInteractions)]
           IN  /\ \E a \in dbAccounts : a.id = r.account_id
               /\ AccountStamped(r)
               /\ ~IsNull(r.contact_id) => ContactStamped(r)

\* C12: in every state of the store each interaction inserted by save has its
\* account's last_interaction_at and, when it names a contact, that contact's
\* last_touch_at updated for it, also after a write of the save has failed.
C12_SingleUnit ==
    \A i \in 1..Len(dbInteractions) :
        /\ AccountStamped(dbInteractions[i])
        /\ ~IsNull(dbInteractions[i].contact_id) => ContactStamped(dbInteractions[i])

\* a text field of the form is empty after trimming, or the date is empty
FormInvalid ==
    \/ trim(qlSummary) = <<>>
    \/ trim(qlNextStep) = <<>>
    \/ IsNull(qlNextStepDate)

\* every interaction of the store has a summary, a next step and a date
RowsComplete ==
    \A i \in 1..Len(dbInteractions) :
        /\ dbInteractions[i].summary # <<>>
        /\ dbInteractions[i].next_step # <<>>
        /\ ~IsNull(dbInteractions[i].next_step_date)

\* Save is pressed: with no save running, the only step that changes the
\* message or starts a save
SavePressed ==
    /\ qlOpen
    /\ savePc = "idle"
    /\ qlMsg' # qlMsg \/ savePc' # "idle"

\* C13: no interaction is stored without summary, next step and date; a press of
\* Save with the summary or the next step empty after trimming, or with an empty
\* date, writes nothing to the store, starts no save, leaves the form as it is
\* and shows the message of a field that is missing.
C13_Validation ==
    [][ /\ RowsComplete'
        /\ (SavePressed /\ FormInvalid) =>
              /\ UNCHANGED <<dbAccounts, dbContacts, dbInteractions>>
              /\ UNCHANGED formVars
              /\ savePc' = "idle"
              /\ qlRequest' = None
              /\ qlMsg' \in {Some("contacts"), Some("contactId"), Some("summary"),
                             Some("nextStep"), Some("nextStepDate")}
              /\ qlMsg' = Some("contacts") => Len(qlContacts) = 0
              /\ qlMsg' = Some("contactId") => IsNull(qlContactId)
              /\ qlMsg' = Some("summary") => trim(qlSummary) = <<>>
              /\ qlMsg' = Some("nextStep") => trim(qlNextStep) = <<>>
              /\ qlMsg' = Some("nextStepDate") => IsNull(qlNextStepDate)
      ]_vars

\* a summary of white space only has been refused: nothing was stored
C13_Witness ==
    /\ qlOpen
    /\ savePc = "idle"
    /\ qlSummary = <<" ">>
    /\ qlMsg = Some("summary")
    /\ dbInteractions = <<>>

\* C14: every interaction save inserts names a contact: no row of interactions
\* has a null contact_id.
C14_ContactLinked ==
    \A i \in 1..Len(dbInteractions) : ~IsNull(dbInteractions[i].contact_id)

-----------------------------------------------------------------------------
(* Claims about the clock of a worklist pass, checked under Spec *)

\* the row of the worklist is what the enrichment yields when every reading of
\* the clock returns t
JudgedAt(r, t) ==
    /\ r.score.d = daysSince(r.last_interaction_at, t)
    /\ r.score = computeIntimacyScore(r, r.contacts, t)
    /\ r.isDue = isAccountDue(r, t)
    /\ r.lastTouch = fmtLastTouch(daysSince(r.last_interaction_at, t))
    /\ r.recommendedContact = pickRecommendedContact(r.contacts, t)
    /\ ~IsNull(r.recommendedContact) =>
          r.recommendedLastTouch =
              fmtLastTouch(daysSince(Val(r.recommendedContact).last_touch_at, t))

\* C15: all values of one worklist are judged against one instant: the days
\* since, score and isDue flag of every account and the days since of every
\* recommended contact; in particular isDue agrees with score.d.
C15_OneClock ==
    /\ \E t \in Now0..MaxNow : \A i \in 1..Len(allEnriched) : JudgedAt(allEnriched[i], t)
    /\ \A i \in 1..Len(allEnriched) :
          allEnriched[i].isDue <=>
              \/ IsNull(allEnriched[i].score.d)
              \/ Val(allEnriched[i].score.d) > allEnriched[i].score.cadence

-----------------------------------------------------------------------------
(* Claims about unrecognized enum values, checked under SpecEnum *)

\* the input of the call carries no unrecognized tier and no unrecognized area
EnumsRecognized ==
    /\ fnAccount.tier \in {"A", "B", "C"}
    /\ \A i \in 1..Len(fnContacts) :
          fnContacts[i].area \in {"Marketing", "R&D", "Procurement", "Commercial", "Directors"}

\* C16: an input with an unrecognized tier or area yields no score, and the
\* area of a contact is never replaced by a default: the sheet opened on a
\* contact shows that contact's area.
C16_Validation ==
    /\ ~IsNull(fnScore) => EnumsRecognized
    /\ (~IsNull(sheetArea) /\ ~IsNull(Val(sheetArea).initial)) =>
          Val(sheetArea).area = Val(Val(sheetArea).initial)

-----------------------------------------------------------------------------
(* Claims about the score of the account card, checked under SpecCard *)

\* C17: for the same account and contacts scoreForAccount yields the total,
\* recency and coverage of computeIntimacyScore, and its status is healthy,
\* watch, risk exactly when the label is Strong, Ok, Risk.
C17_OneImplementation ==
    (~IsNull(fnScore) /\ ~IsNull(fnCard)) =>
        /\ Val(fnCard).total = Val(fnScore).total
        /\ Val(fnCard).recency = Val(fnScore).recency
        /\ Val(fnCard).coverage = Val(fnScore).coverage
        /\ Val(fnCard).status = "healthy" <=> Val(fnScore).label = "Strong"
        /\ Val(fnCard).status = "watch" <=> Val(fnScore).label = "Ok"
        /\ Val(fnCard).status = "risk" <=> Val(fnScore).label = "Risk"

-----------------------------------------------------------------------------
(* Claims about ties in pickRecommendedContact, checked under SpecTie *)

\* C18: no contact of the list that is as overdue as the returned one (never
\* touched like it, or with the same days since its last touch) has a smaller
\* id than the returned one.
C18_SmallestId ==
    PickedFromList =>
        \A i \in 1..Len(fnContacts) :
            TouchDays(i) = daysSince(Val(Val(fnPick)).last_touch_at, now) =>
                Val(Val(fnPick)).id <= fnContacts[i].id

-----------------------------------------------------------------------------
(* Claims about daysSince, checked under SpecDays *)

\* the whole days from instant t to now, rounded down; t may lie after now
WholeDaysSince(t) ==
    CHOOSE n \in -(MaxDays + 2)..(MaxDays + 2) :
        n * TicksPerDay <= now - t /\ now - t < (n + 1) * TicksPerDay

\* the result the claim states for the timestamp handed to the calls
ClaimedDays ==
    IF IsNull(fnAccount.last_interaction_at) THEN None
    ELSE IF Val(fnAccount.last_interaction_at) > now THEN Some(0)
    ELSE Some(WholeDaysSince(Val(fnAccount.last_interaction_at)))

\* C19: every implementation of daysSince returns null for a null timestamp,
\* else the whole elapsed days rounded down, 0 for a timestamp in the future,
\* and never a negative number.
C19_DaysSince ==
    /\ ~IsNull(fnDays) =>
          /\ Val(fnDays) = ClaimedDays
          /\ ~IsNull(Val(fnDays)) => Val(Val(fnDays)) >= 0
    /\ ~IsNull(fnDaysWeekly) =>
          /\ Val(fnDaysWeekly) = ClaimedDays
          /\ ~IsNull(Val(fnDaysWeekly)) => Val(Val(fnDaysWeekly)) >= 0

-----------------------------------------------------------------------------
(* Claims about accounts without contacts, checked under Spec *)

\* the loaded account has no contact among the loaded contacts
Contactless(a) == \A i \in 1..Len(rawContacts) : rawContacts[i].account_id # a.id

\* C20: an account with no contacts is enriched like any other: its recommended
\* contact is null, its coverage is 0 with all five areas missing, it has a
\* score, it is in allSorted when it passes the filter, and in mustContact when
\* it is due.
C20_ZeroContacts ==
    /\ \A i \in 1..Len(rawAccounts) :
          (Contactless(rawAccounts[i]) /\ ClaimPasses(rawAccounts[i])) =>
              \E j \in 1..Len(allSorted) :
                  /\ allSorted[j].id = rawAccounts[i].id
                  /\ allSorted[j].contacts = <<>>
    /\ \A i \in 1..Len(allEnriched) :
          allEnriched[i].contacts = <<>> =>
              /\ IsNull(allEnriched[i].recommendedContact)
              /\ allEnriched[i].score.coverage = 0
              /\ allEnriched[i].score.missing =
                    <<"Marketing", "R&D", "Procurement", "Commercial", "Directors">>
              /\ allEnriched[i].missingAreas =
                    <<"Marketing", "R&D", "Procurement", "Commercial", "Directors">>
              /\ allEnriched[i].score.total \in 0..100
              /\ allEnriched[i].score.total = allEnriched[i].score.recency
              /\ \E j \in 1..Len(allSorted) : allSorted[j] = allEnriched[i]
              /\ allEnriched[i].isDue =>
                    \E j \in 1..Len(mustContact) : mustContact[j] = allEnriched[i]

\* the load is complete; account 1 has no contacts, is due, and is in both
\* lists beside an account that has contacts
C20_Witness ==
    /\ loadPc = "idle"
    /\ Len(rawContacts) > 0
    /\ \E i \in 1..Len(mustContact) :
          /\ mustContact[i].id = 1
          /\ mustContact[i].contacts = <<>>
          /\ IsNull(mustContact[i].recommendedContact)
    /\ \E i \in 1..Len(allSorted) : allSorted[i].id = 1
    /\ \E i \in 1..Len(allSorted) : allSorted[i].contacts # <<>>

---------------------------------------------------------------------------
(* Claims about the score record, checked under SpecScore *)

\* the contacts of the list handed to computeIntimacyScore that have area ar
ContactsInArea(ar) == {i \in 1..Len(fnContacts) : fnContacts[i].area = ar}

\* C21: coverageByArea returns a map whose keys are exactly the five fixed areas,
\* each value being the number of contacts of the list that have that area (0 when
\* there is none), and the list of missing areas is exactly the set of areas whose
\* count is 0.
C21_CoverageByArea ==
    ~IsNull(fnScore) =>
        LET counts  == Val(fnScore).counts
            missing == Val(fnScore).missing
        IN  /\ DOMAIN counts =
                   {"Marketing", "R&D", "Procurement", "Commercial", "Directors"}
            /\ \A ar \in DOMAIN counts : counts[ar] = Cardinality(ContactsInArea(ar))
            /\ {missing[i] : i \in 1..Len(missing)} =
                   {ar \in DOMAIN counts : counts[ar] = 0}
            /\ \A i, j \in 1..Len(missing) : missing[i] = missing[j] => i = j

\* a list with three contacts in one area, one in another and three areas missing
C21_Witness ==
    /\ ~IsNull(fnScore)
    /\ Len(fnContacts) = 4
    /\ Val(fnScore).counts["Commercial"] = 3
    /\ Val(fnScore).counts["R&D"] = 1
    /\ Len(Val(fnScore).missing) = 3

\* C25: judged at one instant, isAccountDue(account) is true exactly when
\* computeIntimacyScore(account, contacts).recency is below 60, for every tier and
\* every contact list.
C25_DueIffRecencyBelow60 ==
    (~IsNull(fnScore) /\ ~IsNull(fnDue)) =>
        (Val(fnDue) <=> Val(fnScore).recency < 60)

\* one day past the cadence: due, and the first penalty is taken off the recency
C25_Witness ==
    /\ ~IsNull(fnScore)
    /\ ~IsNull(fnDue)
    /\ ArgDays = Some(ArgCadence + 1)
    /\ Val(fnDue)
    /\ Val(fnScore).recency = 55

\* C30: every IntimacyScore record is consistent: total = recency + coverage (the
\* clamp never changes the sum), coverage = 8 * coveredAreas, coveredAreas plus
\* the number of missing areas is 5, and cadence is the cadence of the tier.
C30_RecordConsistent ==
    ~IsNull(fnScore) =>
        LET s == Val(fnScore)
        IN  /\ s.total = s.recency + s.coverage
            /\ s.coverage = 8 * s.coveredAreas
            /\ s.coveredAreas + Len(s.missing) = 5
            /\ fnAccount.tier = "A" => s.cadence = 7
            /\ fnAccount.tier = "B" => s.cadence = 14
            /\ fnAccount.tier = "C" => s.cadence = 30

\* an overdue account with three of the five areas covered
C30_Witness ==
    /\ ~IsNull(fnScore)
    /\ Val(fnScore).recency = 40
    /\ Val(fnScore).coveredAreas = 3
    /\ Len(Val(fnScore).missing) = 2
    /\ Val(fnScore).total = 64

---------------------------------------------------------------------------
(* Claims about the cadence of the badges, checked under SpecBadge *)

\* C22: cadenceDays maps A to 7, B to 14 and C to 30, and every place that decides
\* whether an account is ok or due uses the cadence of the account's tier: an
\* account shown as ok is within that cadence, an account shown as due has reached
\* it, and "never" is shown only for an account without a last interaction.
C22_TierCadence ==
    /\ cadenceDays("A") = 7
    /\ cadenceDays("B") = 14
    /\ cadenceDays("C") = 30
    /\ ~IsNull(fnBadge) =>
          LET b == Val(fnBadge).badge
          IN  /\ b = "ok" => (~IsNull(ArgDays) /\ Val(ArgDays) <= ArgCadence)
              /\ b = "due" => (IsNull(ArgDays) \/ Val(ArgDays) >= ArgCadence)
              /\ b = "never" => IsNull(ArgDays)

---------------------------------------------------------------------------
(* Claims about the arrays the worklist is built from, checked under Spec *)

\* the ids of the rows of a list, in the order of the list
IdOrder(rows) == [i \in 1..Len(rows) |-> rows[i].id]

\* C23: building the worklist and picking the recommended contact never mutate
\* their inputs: after allEnriched, mustContact, allSorted and the recommended
\* contacts have been computed, allEnriched still holds the filtered accounts in
\* the order of the raw accounts list, and the contacts array of each account
\* still holds the account's contacts in the order of the raw contacts list.
C23_InputsKept ==
    /\ IdOrder(allEnriched) = IdOrder(FilterAccounts(rawAccounts, search, tierFilter))
    /\ \A i \in 1..Len(allEnriched) :
          allEnriched[i].contacts = ContactsByAccount(rawContacts, allEnriched[i].id)

\* a pass in which both sorted lists and one sorted contacts array differ in
\* order from the arrays they were computed from
C23_Witness ==
    /\ Len(allEnriched) > 1
    /\ allSorted # allEnriched
    /\ mustContact # SelectSeq(allEnriched, LAMBDA a : a.isDue)
    /\ \E i \in 1..Len(allEnriched) :
          /\ Len(allEnriched[i].contacts) > 1
          /\ Val(allEnriched[i].recommendedContact) # allEnriched[i].contacts[1]

---------------------------------------------------------------------------
(* Claims about a failed load of useToday, checked under Spec *)

\* C28: a failed load leaves the displayed data unchanged: rawAccounts and
\* rawContacts keep their previous values together, so that the contacts the
\* worklist is computed from are always the contacts of the accounts it is
\* computed from, never an older list; and loading is false once loadAll is over.
C28_FailedLoadKeepsData ==
    /\ rawContacts \in QueryContacts(dbContacts, rawAccounts)
    /\ loadPc = "idle" => ~loading

---------------------------------------------------------------------------
(* Claims about the worklist after a Quick Log, checked under SpecSave *)

\* a save has completed successfully
SaveCompleted == onSavedCalls > 0 /\ savePc = "idle"

\* the account and the contacts a reload reads from the store
ReloadedAccount == CHOOSE a \in dbAccounts : TRUE

ReloadedContacts == SeqById(dbContacts)

\* the interaction the completed save has written
LoggedRow == dbInteractions[Len(dbInteractions)]

\* the instants at which at most the cadence in days has elapsed since the save
WithinCadence ==
    {t \in now..(now + (cadenceDays(ReloadedAccount.tier) + 1) * TicksPerDay) :
        (t - LoggedRow.saved_at) \div TicksPerDay <= cadenceDays(ReloadedAccount.tier)}

\* contact c is never touched, or was touched longer ago than contact l
MoreOverdue(c, l, clock) ==
    \/ IsNull(c.last_touch_at)
    \/ /\ ~IsNull(l.last_touch_at)
       /\ Val(daysSince(c.last_touch_at, clock)) > Val(daysSince(l.last_touch_at, clock))

\* C27: after a Quick Log save has completed successfully and the data is
\* reloaded, the logged account is not due, has recency 60 and is absent from
\* mustContact until more than cadenceDays(tier) days have elapsed, and the logged
\* contact is returned by pickRecommendedContact only if no other contact of the
\* account is never touched or has a larger days-since value.
C27_AfterQuickLog ==
    SaveCompleted =>
        /\ \A t \in WithinCadence :
              /\ ~isAccountDue(ReloadedAccount, t)
              /\ computeIntimacyScore(ReloadedAccount, ReloadedContacts, t).recency = 60
              /\ MustContactMemo(AllEnrichedMemo(<<ReloadedAccount>>, ReloadedContacts,
                                                 <<>>, "all", ReadsPerAccount, t)) = <<>>
        /\ \A i \in 1..Len(ReloadedContacts) :
              (/\ LoggedRow.contact_id = Some(ReloadedContacts[i].id)
               /\ pickRecommendedContact(ReloadedContacts, now) = Some(ReloadedContacts[i]))
              => \A j \in 1..Len(ReloadedContacts) :
                    j # i => ~MoreOverdue(ReloadedContacts[j], ReloadedContacts[i], now)

---------------------------------------------------------------------------
(* Claims about the score over time, checked under SpecClock *)

\* C26: with the records unchanged, the score never improves as the clock
\* advances: recency and total do not increase, and an account that is due stays
\* due, until a save updates its last_interaction_at.
C26_NeverImproves ==
    [][ (now' > now /\ fnAccount' = fnAccount /\ fnContacts' = fnContacts) =>
            /\ Val(fnScore').recency <= Val(fnScore).recency
            /\ Val(fnScore').total <= Val(fnScore).total
            /\ Val(fnDue) => Val(fnDue') ]_vars

\* an account that was saved after the start and has decayed to recency 0 since
C26_Witness ==
    /\ ~IsNull(fnAccount.last_interaction_at)
    /\ Val(fnAccount.last_interaction_at) > TicksPerDay
    /\ Val(fnScore).recency = 0
    /\ Val(fnScore).total = Val(fnScore).coverage
    /\ Val(fnDue)

---------------------------------------------------------------------------
(* Claims about useAccountDetail, checked under SpecDetail *)

\* the ids that are missing or are not in UUID format
RefusedIds ==
    { None, Some(<<>>), Some(<<"a", "b", "c">>),
      Some([DetailUuid(3) EXCEPT ![15] = "0"]) }

\* the loads that are suspended at an await
InFlight == {k \in 1..Len(adLoads) : adLoads[k].pc \in {"requireUser", "queries"}}

\* C24: an account id supplied from outside is checked against the UUID format
\* before any lookup: a call of loadAll with a missing or non-UUID accountId
\* issues no authentication check and no store query, sets an error message,
\* never sets loading to true and leaves account, contacts, interactions and
\* score unchanged.
C24_IdChecked ==
    [][ (/\ loadAllCalls' > loadAllCalls
         /\ (IF ~IsNull(adDelete) /\ IsNull(adDelete')
             THEN Val(adDelete).accountId ELSE adAccountId') \in RefusedIds)
        => /\ adLoads' = adLoads
           /\ ~IsNull(adError')
           /\ adLoading' => adLoading
           /\ UNCHANGED <<adAccount, adContacts, adInteractions, adScore>> ]_vars

\* an id with version digit 0 has been refused while the rows of an account
\* that was loaded before are still shown
C24_Witness ==
    /\ adAccountId = Some([DetailUuid(3) EXCEPT ![15] = "0"])
    /\ adError = Some("Invalid account id")
    /\ ~IsNull(adAccount)
    /\ InFlight = {}
    /\ ~adLoading

\* C29: when accountId changes, or loadAll is triggered again, while an earlier
\* loadAll is in flight, then once every load has completed the account,
\* contacts, interactions and score of the state all come from the load that
\* was requested last and belong to its accountId (an earlier response that
\* arrives later never replaces a newer one), and loading is false only when no
\* load is in flight.
C29_LatestLoadWins ==
    /\ (/\ InFlight = {}
        /\ Len(adLoads) > 0
        /\ adLoads[Len(adLoads)].pc = "ok")
       => /\ adShown = Len(adLoads)
          /\ ~IsNull(adAccount)
          /\ DetailUuid(Val(adAccount).id) = toLowerCase(adLoads[Len(adLoads)].accountId)
          /\ \A j \in 1..Len(adContacts) : adContacts[j].account_id = Val(adAccount).id
          /\ \A j \in 1..Len(adInteractions) :
                adInteractions[j].account_id = Val(adAccount).id
          /\ adScore = Some(computeIntimacyScore(Val(adAccount), adContacts, now))
    /\ ~adLoading => InFlight = {}

====
